---- MODULE Spec2Model ----
(***************************************************************************)
(* Verification model of fourcipp:                                         *)
(*   - the legacy line codec (fourcipp/legacy_io/inline_dat.py and the     *)
(*     particle reader/writer built on it), specification SpecCodec;       *)
(*   - the spec-node condensation (fourc_meta/input_specs.py, All_Of and   *)
(*     One_Of), specification SpecTree;                                    *)
(*   - the casting table builder (casting_factory) and the constructors of *)
(*     Vector and Map, specification SpecMeta;                             *)
(*   - the knot vector reader and writer (fourcipp/legacy_io/              *)
(*     knotvectors.py), specifications SpecKnot and SpecKnotLive;          *)
(*   - the input object (fourcipp/fourc_input.py, FourCInput),             *)
(*     specifications SpecInput and SpecRun.                               *)
(* Text is modelled at character level: a Python str is a sequence of      *)
(* one-character strings, so that str.split, " ".join, str(), int() and    *)
(* float() are computed and not assumed to be inverse to each other.       *)
(***************************************************************************)
EXTENDS Integers, Sequences, FiniteSets, TLC

VARIABLES
    \* ---- line codec ----
    dat_casting,   \* the casting table used by the reader
    mode,          \* "value": started from a record, "text": started from a line
    record,        \* the dict at hand (sequence of <<key, value>>, insertion order)
    text,          \* the line at hand (sequence of characters)
    line_list,     \* inline_dat_read: the tokens not yet consumed
    entry,         \* inline_dat_read: the dict under construction
    pc,            \* position of the codec run
    raised,        \* the exception that ended the run, or NoException
    round,         \* number of completed inline_dat_read calls
    first_record,  \* history: the record the run started from ("value" mode)
    first_text,    \* history: the first line that was split
    popped,        \* history: keys popped by inline_dat_read and tokens left after each
    \* ---- spec tree ----
    heap,          \* Python objects: sequence of nodes, the index is the identity
    refs,          \* the objects the program holds a reference to
    last,          \* history: the last operation on the spec tree and its outcome
    \* ---- casting table builder, Vector and Map ----
    metadata,      \* the metadata tree given to casting_factory
    built,         \* the outcome of casting_factory, or NotCalled
    element_type,  \* the class of the object given as value_type
    made,          \* the outcome of Vector(value_type) or Map(value_type), or NotCalled
    \* ---- knot vectors ----
    list_of_lines, \* read_knotvectors: the lines not yet consumed
    patch_data,    \* read_knotvectors: the patch under construction
    knots_data,    \* read_knotvectors: the knot vector under construction
    patches,       \* read_knotvectors: the patches read
    latest_nurb_dimension, \* read_knotvectors: the dimension of the last patch ended
    knot_pc,       \* position of the knot vector run
    knot_raised,   \* the exception that ended the run, or NoException
    given_lines,   \* history: the lines read_knotvectors was called with
    written_lines, \* the outcome of write_knotvectors, or NotCalled
    \* ---- input file objects ----
    inputs,        \* the FourCInput objects: the index is the identity
    last_call,     \* history: the last call on an input object and its outcome
    n_calls        \* number of calls made

codec_vars == <<dat_casting, mode, record, text, line_list, entry, pc, raised,
                round, first_record, first_text, popped>>
tree_vars == <<heap, refs, last>>
meta_vars == <<metadata, built, element_type, made>>
knot_vars == <<list_of_lines, patch_data, knots_data, patches, latest_nurb_dimension,
               knot_pc, knot_raised, given_lines, written_lines>>
input_vars == <<inputs, last_call, n_calls>>
vars == <<codec_vars, tree_vars, meta_vars, knot_vars, input_vars>>

\* what a run of one part of the program leaves alone: the other parts
outside_codec == <<tree_vars, meta_vars, knot_vars, input_vars>>
outside_tree == <<codec_vars, meta_vars, knot_vars, input_vars>>
outside_meta == <<codec_vars, tree_vars, knot_vars, input_vars>>
outside_knot == <<codec_vars, tree_vars, meta_vars, input_vars>>
outside_input == <<codec_vars, tree_vars, meta_vars, knot_vars>>

(***************************************************************************)
(* Bounds of the model.                                                    *)
(***************************************************************************)
MaxFields == 2    \* fields of a record the run starts from
MaxTokens == 3    \* tokens of a line the run starts from
MaxRounds == 2    \* conversions (write or read) in one codec run
MaxOps == 3       \* operations on spec nodes in one run
MaxSpecs == 2     \* length of a specs list passed to an operation
MaxChildren == 2  \* specs of one collection of a metadata tree
MaxDepth == 2     \* collections nested in a metadata tree
MaxPatches == 2   \* patches of a knot vectors section
MaxBlocks == 2    \* knot vectors of a patch
MaxInputs == 4    \* FourCInput objects of a run
MaxCalls == 4     \* calls on input objects in one run
MaxNames == 2     \* section names given to split

(***************************************************************************)
(* Python text.                                                            *)
(***************************************************************************)
Whitespace == {" "}

Digits == <<"0", "1", "2", "3", "4", "5", "6", "7", "8", "9">>

IsDigit(c) == \E i \in 1..10 : Digits[i] = c

DigitVal(c) == (CHOOSE i \in 1..10 : Digits[i] = c) - 1

\* str.split(): the maximal runs of non-whitespace characters, in order.
RECURSIVE SplitFrom(_, _, _, _)
SplitFrom(s, i, cur, acc) ==
    IF i > Len(s)
    THEN IF cur = <<>> THEN acc ELSE Append(acc, cur)
    ELSE IF s[i] \in Whitespace
         THEN SplitFrom(s, i + 1, <<>>, IF cur = <<>> THEN acc ELSE Append(acc, cur))
         ELSE SplitFrom(s, i + 1, Append(cur, s[i]), acc)

Split(s) == SplitFrom(s, 1, <<>>, <<>>)

\* str.strip(): without the whitespace at both ends
Strip(s) ==
    LET inked == {i \in 1..Len(s) : s[i] \notin Whitespace}
    IN  IF inked = {} THEN <<>>
        ELSE SubSeq(s, CHOOSE i \in inked : \A j \in inked : i <= j,
                       CHOOSE i \in inked : \A j \in inked : i >= j)

\* sep.join(parts)
RECURSIVE Join(_, _)
Join(parts, sep) ==
    IF parts = <<>> THEN <<>>
    ELSE IF Len(parts) = 1 THEN parts[1]
    ELSE parts[1] \o sep \o Join(Tail(parts), sep)

\* str(n) for a natural number n
RECURSIVE NatToStr(_)
NatToStr(n) ==
    IF n < 10 THEN <<Digits[n + 1]>>
    ELSE Append(NatToStr(n \div 10), Digits[(n % 10) + 1])

\* str(n) for an int
IntToStr(n) == IF n < 0 THEN <<"-">> \o NatToStr(0 - n) ELSE NatToStr(n)

\* value of a sequence of digits
RECURSIVE DigitsVal(_)
DigitsVal(ds) ==
    IF ds = <<>> THEN 0
    ELSE 10 * DigitsVal(SubSeq(ds, 1, Len(ds) - 1)) + DigitVal(ds[Len(ds)])

AllDigits(ds) == \A i \in 1..Len(ds) : IsDigit(ds[i])

HasSign(tok) == tok # <<>> /\ tok[1] \in {"+", "-"}

Unsigned(tok) == IF HasSign(tok) THEN Tail(tok) ELSE tok

Signed(tok, n) == IF HasSign(tok) /\ tok[1] = "-" THEN 0 - n ELSE n

(***************************************************************************)
(* Python values.  A float is the decimal m * 10^(-d), kept normalised     *)
(* (d = 0 or m not a multiple of 10): within the modelled tokens float()   *)
(* is exact on such decimals and str() prints the shortest one.            *)
(***************************************************************************)
NoException == [type |-> "none", arg |-> <<>>]

Exc(type, arg) == [type |-> type, arg |-> arg]

PyInt(n) == [ty |-> "int", n |-> n]
PyFloat(m, d) == [ty |-> "float", m |-> m, d |-> d]
PyStr(s) == [ty |-> "str", s |-> s]
PyBool(b) == [ty |-> "bool", b |-> b]
PyList(items) == [ty |-> "list", items |-> items]

Ok(v) == [ok |-> TRUE, val |-> v]
Fail(type, arg) == [ok |-> FALSE, exc |-> Exc(type, arg)]

RECURSIVE Pow10(_)
Pow10(d) == IF d = 0 THEN 1 ELSE 10 * Pow10(d - 1)

RECURSIVE Normalize(_, _)
Normalize(m, d) ==
    IF d > 0 /\ m % 10 = 0 THEN Normalize(m \div 10, d - 1) ELSE PyFloat(m, d)

\* int(token): whitespace around it aside, an optional sign and at least one
\* digit, else ValueError
PyIntOf(tok) ==
    LET t == Strip(tok)
        u == Unsigned(t)
    IN  IF u # <<>> /\ AllDigits(u)
        THEN Ok(PyInt(Signed(t, DigitsVal(u))))
        ELSE Fail("ValueError", tok)

PointAt(u) == IF \E i \in 1..Len(u) : u[i] = "."
              THEN CHOOSE i \in 1..Len(u) : u[i] = "." /\ \A j \in 1..(i - 1) : u[j] # "."
              ELSE Len(u) + 1

\* float(token): whitespace around it aside, an optional sign, digits, an
\* optional point and digits, with at least one digit; else ValueError
PyFloatOf(tok) ==
    LET t  == Strip(tok)
        u  == Unsigned(t)
        p  == PointAt(u)
        ip == SubSeq(u, 1, p - 1)
        fp == SubSeq(u, p + 1, Len(u))
    IN  IF AllDigits(ip) /\ AllDigits(fp) /\ Len(ip) + Len(fp) > 0
        THEN Ok(Normalize(Signed(t, DigitsVal(ip \o fp)), Len(fp)))
        ELSE Fail("ValueError", tok)

\* bool(token): True exactly for a non-empty string
PyBoolOf(tok) == Ok(PyBool(tok # <<>>))

\* str(token)
PyStrOf(tok) == Ok(PyStr(tok))

\* entry_type(token) for the Python callables used as entry_type
Cast(entry_type, tok) ==
    CASE entry_type = "int" -> PyIntOf(tok)
      [] entry_type = "float" -> PyFloatOf(tok)
      [] entry_type = "bool" -> PyBoolOf(tok)
      [] entry_type = "str" -> PyStrOf(tok)

RECURSIVE ZeroPad(_, _)
ZeroPad(ds, d) == IF Len(ds) >= d THEN ds ELSE ZeroPad(<<"0">> \o ds, d)

\* str(x) for a float x
FloatToStr(m, d) ==
    LET a == IF m < 0 THEN 0 - m ELSE m
        sign == IF m < 0 THEN <<"-">> ELSE <<>>
    IN  IF d = 0
        THEN sign \o NatToStr(a) \o <<".", "0">>
        ELSE sign \o NatToStr(a \div Pow10(d)) \o <<".">>
                  \o ZeroPad(NatToStr(a % Pow10(d)), d)

\* str(object) for a scalar
PyStrRepr(v) ==
    CASE v.ty = "int" -> IntToStr(v.n)
      [] v.ty = "float" -> FloatToStr(v.m, v.d)
      [] v.ty = "str" -> v.s
      [] v.ty = "bool" -> IF v.b THEN <<"T", "r", "u", "e">>
                                  ELSE <<"F", "a", "l", "s", "e">>

\* str.lower() on the two texts str(bool) produces
LowerBool(b) == IF b THEN <<"t", "r", "u", "e">> ELSE <<"f", "a", "l", "s", "e">>

to_dat_string(object) ==
    IF object.ty = "list"
    THEN Join([i \in 1..Len(object.items) |-> PyStrRepr(object.items[i])], <<" ">>)
    ELSE IF object.ty = "bool"
         THEN LowerBool(object.b)
         ELSE PyStrRepr(object)

(***************************************************************************)
(* inline_dat.py: the extractors.  Each takes the token list and returns   *)
(* the value (or the exception raised) and the token list it leaves.       *)
(***************************************************************************)
Min(a, b) == IF a < b THEN a ELSE b

\* the number of elements of the slice l[:n] of a list of len elements
SliceLen(n, len) == IF n >= 0 THEN Min(n, len) ELSE IF len + n > 0 THEN len + n ELSE 0

_left_pop(line_list_, n_entries) ==
    [entries |-> SubSeq(line_list_, 1, SliceLen(n_entries, Len(line_list_))),
     rest    |-> SubSeq(line_list_, SliceLen(n_entries, Len(line_list_)) + 1, Len(line_list_))]

_extract_entry(line_list_, entry_type) ==
    LET p == _left_pop(line_list_, 1)
    IN  IF p.entries = <<>>
        THEN [res |-> Fail("IndexError", <<>>), rest |-> p.rest]
        ELSE [res |-> Cast(entry_type, p.entries[1]), rest |-> p.rest]

_extract_vector(line_list_, entry_type, size) ==
    LET p == _left_pop(line_list_, size)
        casts == [i \in 1..Len(p.entries) |-> Cast(entry_type, p.entries[i])]
        bad == {i \in 1..Len(casts) : ~casts[i].ok}
    IN  IF bad # {}
        THEN [res |-> casts[CHOOSE i \in bad : \A j \in bad : i <= j], rest |-> p.rest]
        ELSE [res |-> Ok(PyList([i \in 1..Len(casts) |-> casts[i].val])), rest |-> p.rest]

InSeq(x, s) == \E i \in 1..Len(s) : s[i] = x

\* _extract_enum as it would be without the check of the choices
_extract_enum_unchecked(line_list_, choices) ==
    LET p == _left_pop(line_list_, 1)
    IN  IF p.entries = <<>>
        THEN [res |-> Fail("IndexError", <<>>), rest |-> p.rest]
        ELSE [res |-> Ok(PyStr(p.entries[1])), rest |-> p.rest]

_extract_enum(line_list_, choices) ==
    LET p == _left_pop(line_list_, 1)
    IN  IF p.entries = <<>>
        THEN [res |-> Fail("IndexError", <<>>), rest |-> p.rest]
        ELSE IF ~InSeq(p.entries[1], choices)
             THEN [res |-> Fail("ValueError", p.entries[1]), rest |-> p.rest]
             ELSE [res |-> Ok(PyStr(p.entries[1])), rest |-> p.rest]

\* a casting function: functools.partial of one of the extractors
Partial(fn, entry_type, size, choices) ==
    [fn |-> fn, entry_type |-> entry_type, size |-> size, choices |-> choices]

\* calling a casting function on the token list
CallCasting(c, line_list_) ==
    CASE c.fn = "_extract_entry" -> _extract_entry(line_list_, c.entry_type)
      [] c.fn = "_extract_vector" -> _extract_vector(line_list_, c.entry_type, c.size)
      [] c.fn = "_extract_enum" -> _extract_enum(line_list_, c.choices)

(***************************************************************************)
(* inline_dat.py: building casting functions from 4C metadata.             *)
(***************************************************************************)
\* metadata type -> Python callable
METADATA_TO_PYTHON ==
    [int |-> "int", double |-> "float", bool |-> "bool", string |-> "str"]

MdPrimitive(type, name) == [type |-> type, name |-> name]
MdVector(name, value_type, size) ==
    [type |-> "vector", name |-> name, value_type |-> [type |-> value_type], size |-> size]
MdEnum(name, choices) ==
    [type |-> "enum", name |-> name,
     choices |-> [i \in 1..Len(choices) |-> [name |-> choices[i]]]]
MdCollection(type, name, specs) == [type |-> type, name |-> name, specs |-> specs]

_entry_casting_factory(spec) ==
    IF spec.type \in DOMAIN METADATA_TO_PYTHON
    THEN Ok(Partial("_extract_entry", METADATA_TO_PYTHON[spec.type], 0, <<>>))
    ELSE IF spec.type = "vector"
    THEN IF spec.value_type.type \in DOMAIN METADATA_TO_PYTHON
         THEN Ok(Partial("_extract_vector", METADATA_TO_PYTHON[spec.value_type.type],
                         spec.size, <<>>))
         ELSE Fail("KeyError", spec.value_type.type)
    ELSE IF spec.type = "enum"
    THEN Ok(Partial("_extract_enum", "", 0,
                    [i \in 1..Len(spec.choices) |-> spec.choices[i].name]))
    ELSE Fail("NotImplementedError", <<>>)

\* dict.update: the entries of b replace or extend those of a
DictUpdate(a, b) == [k \in DOMAIN a \cup DOMAIN b |-> IF k \in DOMAIN b THEN b[k] ELSE a[k]]

EmptyDict == [k \in {} |-> 0]

SUPPORTED_METADATA_TYPES == DOMAIN METADATA_TO_PYTHON \cup {"vector", "enum"}

RECURSIVE casting_factory(_), CastingOfSpecs(_, _, _)
\* casting_factory as it would be if a group returned its specs like an all_of
casting_factory_flat(fourc_metadata) ==
    IF fourc_metadata.type \in SUPPORTED_METADATA_TYPES
    THEN LET c == _entry_casting_factory(fourc_metadata)
         IN  IF c.ok THEN Ok(fourc_metadata.name :> c.val) ELSE c
    ELSE IF fourc_metadata.type \in {"all_of", "group", "one_of"}
    THEN CastingOfSpecs(fourc_metadata.specs, 1, EmptyDict)
    ELSE Fail("NotImplementedError", <<>>)

\* casting_factory
casting_factory(fourc_metadata) ==
    IF fourc_metadata.type \in SUPPORTED_METADATA_TYPES
    THEN LET c == _entry_casting_factory(fourc_metadata)
         IN  IF c.ok THEN Ok(fourc_metadata.name :> c.val) ELSE c
    ELSE IF fourc_metadata.type \in {"all_of", "group", "one_of"}
    THEN LET specs == CastingOfSpecs(fourc_metadata.specs, 1, EmptyDict)
         IN  IF ~specs.ok THEN specs
             ELSE IF fourc_metadata.type = "group"
                  THEN Ok(fourc_metadata.name :> specs.val)
                  ELSE specs
    ELSE Fail("NotImplementedError", <<>>)

\* the loop of casting_factory as it would be if an entry already in specs
\* were kept
CastingOfSpecs_first_kept(specs, i, acc) ==
    IF i > Len(specs) THEN Ok(acc)
    ELSE LET c == casting_factory(specs[i])
         IN  IF ~c.ok THEN c ELSE CastingOfSpecs(specs, i + 1, DictUpdate(c.val, acc))

\* the loop of casting_factory: specs.update(casting_factory(spec_i)) from spec i on
CastingOfSpecs(specs, i, acc) ==
    IF i > Len(specs) THEN Ok(acc)
    ELSE LET c == casting_factory(specs[i])
         IN  IF ~c.ok THEN c ELSE CastingOfSpecs(specs, i + 1, DictUpdate(acc, c.val))

(***************************************************************************)
(* The casting tables of the model.                                        *)
(***************************************************************************)
K_TYPE == <<"T", "Y", "P", "E">>
K_POS == <<"P", "O", "S">>
K_RAD == <<"R", "A", "D">>
K_RIGIDCOLOR == <<"R", "I", "G", "I", "D", "C", "O", "L", "O", "R">>

\* particle.py: _PARTICLE_CASTING
_PARTICLE_CASTING ==
    (K_TYPE :> Partial("_extract_enum", "", 0,
                       << <<"p", "h", "a", "s", "e", "1">>,
                          <<"p", "h", "a", "s", "e", "2">>,
                          <<"b", "o", "u", "n", "d", "a", "r", "y", "p", "h", "a", "s", "e">>,
                          <<"r", "i", "g", "i", "d", "p", "h", "a", "s", "e">>,
                          <<"d", "i", "r", "i", "c", "h", "l", "e", "t", "p", "h", "a", "s", "e">>,
                          <<"n", "e", "u", "m", "a", "n", "n", "p", "h", "a", "s", "e">> >>))
    @@ (K_POS :> Partial("_extract_vector", "float", 3, <<>>))
    @@ (K_RAD :> Partial("_extract_entry", "float", 0, <<>>))
    @@ (K_RIGIDCOLOR :> Partial("_extract_entry", "int", 0, <<>>))

K_MAT == <<"M", "A", "T">>
K_THICK == <<"T", "H", "I", "C", "K">>
K_KINEM == <<"K", "I", "N", "E", "M">>
K_NAME == <<"N", "A", "M", "E">>
K_FLAG == <<"F", "L", "A", "G">>
K_FIBER == <<"F", "I", "B", "E", "R">>

\* the parameters of an element cell as the 4C metadata describes them: one
\* field of every supported metadata type
CELL_SPECS ==
    << MdPrimitive("int", K_MAT),
       MdPrimitive("double", K_THICK),
       MdEnum(K_KINEM, << <<"l", "i", "n", "e", "a", "r">>, <<"n", "o", "n", "l", "i", "n", "e", "a", "r">> >>),
       MdPrimitive("string", K_NAME),
       MdPrimitive("bool", K_FLAG),
       MdVector(K_FIBER, "double", 2) >>

\* casting_factory on the all_of of the fields of CELL_SPECS
_CELL_CASTING == casting_factory(MdCollection("all_of", <<>>, CELL_SPECS)).val

Tables == {_PARTICLE_CASTING, _CELL_CASTING}

(***************************************************************************)
(* Python dicts keep insertion order: a dict is a sequence of <<key,       *)
(* value>> with distinct keys; two dicts are equal when they hold the same *)
(* values under the same keys, whatever the order.                         *)
(***************************************************************************)
DictKeys(d) == {d[i][1] : i \in 1..Len(d)}

DictGet(d, k) == d[CHOOSE i \in 1..Len(d) : d[i][1] = k][2]

DictSet(d, k, v) ==
    IF k \in DictKeys(d)
    THEN [i \in 1..Len(d) |-> IF d[i][1] = k THEN <<k, v>> ELSE d[i]]
    ELSE Append(d, <<k, v>>)

DictEq(a, b) ==
    /\ DictKeys(a) = DictKeys(b)
    /\ \A k \in DictKeys(a) : DictGet(a, k) = DictGet(b, k)

(***************************************************************************)
(* particle.py: the reader and the writer of one line.                     *)
(***************************************************************************)
\* the loop of write_particle from item i on
RECURSIVE WriteItems(_, _, _)
WriteItems(particle, i, line) ==
    IF i > Len(particle) THEN line
    ELSE WriteItems(particle, i + 1,
                    (IF line # <<>> THEN line \o <<" ">> ELSE line)
                        \o particle[i][1] \o <<" ">> \o to_dat_string(particle[i][2]))

write_particle(particle) == WriteItems(particle, 1, <<>>)

\* the iteration as it would be with dat_casting.get(key): an unknown key is
\* dropped without an error
inline_dat_read_iteration_lenient(line_list_, entry_, dat_casting_) ==
    LET key == Head(line_list_)
    IN  IF key \notin DOMAIN dat_casting_
        THEN [exc |-> NoException, line_list |-> Tail(line_list_), entry |-> entry_]
        ELSE LET r == CallCasting(dat_casting_[key], Tail(line_list_))
             IN  IF r.res.ok
                 THEN [exc |-> NoException, line_list |-> r.rest,
                       entry |-> DictSet(entry_, key, r.res.val)]
                 ELSE [exc |-> r.res.exc, line_list |-> r.rest, entry |-> entry_]

\* one iteration of the loop of inline_dat_read: pop the key, call its casting
\* function on the remaining tokens, bind the value
inline_dat_read_iteration(line_list_, entry_, dat_casting_) ==
    LET key == Head(line_list_)
    IN  IF key \notin DOMAIN dat_casting_
        THEN [exc |-> Exc("KeyError", key), line_list |-> Tail(line_list_), entry |-> entry_]
        ELSE LET r == CallCasting(dat_casting_[key], Tail(line_list_))
             IN  IF r.res.ok
                 THEN [exc |-> NoException, line_list |-> r.rest,
                       entry |-> DictSet(entry_, key, r.res.val)]
                 ELSE [exc |-> r.res.exc, line_list |-> r.rest, entry |-> entry_]

(***************************************************************************)
(* The records and lines a codec run starts from.                          *)
(***************************************************************************)
IntValues == {PyInt(4), PyInt(0 - 12)}
FloatValues == {PyFloat(1, 1), PyFloat(211, 2), PyFloat(2, 0)}
StrValues == {PyStr(<<"t", "e", "x", "t">>), PyStr(<<"a", " ", "b">>), PyStr(<<>>)}
BoolValues == {PyBool(TRUE), PyBool(FALSE)}

ScalarValues(entry_type) ==
    CASE entry_type = "int" -> IntValues
      [] entry_type = "float" -> FloatValues
      [] entry_type = "str" -> StrValues
      [] entry_type = "bool" -> BoolValues

\* the values of the type, choice and length a casting function declares
ValuesOf(c) ==
    CASE c.fn = "_extract_entry" -> ScalarValues(c.entry_type)
      [] c.fn = "_extract_enum" -> {PyStr(c.choices[i]) : i \in 1..Len(c.choices)}
      [] c.fn = "_extract_vector" ->
            {PyList(items) : items \in [1..c.size -> ScalarValues(c.entry_type)]}

Items(casting) == UNION {{<<k, v>> : v \in ValuesOf(casting[k])} : k \in DOMAIN casting}

Records(casting) ==
    UNION {{r \in [1..n -> Items(casting)] :
                \A i, j \in 1..n : i # j => r[i][1] # r[j][1]} : n \in 0..MaxFields}

K_FOO == <<"F", "O", "O">>

\* value tokens: canonical and non-canonical numerals, booleans, enum choices
ValueTokens(casting) ==
    IF casting = _PARTICLE_CASTING
    THEN {<<"4">>, <<"0", "4">>, <<"0", ".", "5">>, <<"p", "h", "a", "s", "e", "1">>}
    ELSE {<<"4">>, <<"0", ".", "5">>, <<"f", "a", "l", "s", "e">>, <<"l", "i", "n", "e", "a", "r">>}

Tokens(casting) == DOMAIN casting \cup {K_FOO} \cup ValueTokens(casting)

\* a line of the tokens: separated by one blank, or padded with more blanks
LineOf(toks, wide) ==
    IF wide THEN <<" ">> \o Join(toks, <<" ", " ">>) \o <<" ">> ELSE Join(toks, <<" ">>)

Lines(casting) ==
    UNION {{LineOf(toks, wide) : toks \in [1..n -> Tokens(casting)], wide \in BOOLEAN} :
              n \in 0..MaxTokens}

(***************************************************************************)
(* The spec tree part is idle in a codec run and the codec part is idle in *)
(* a spec tree run.                                                        *)
(***************************************************************************)
TreeIdle == heap = <<>> /\ refs = <<>> /\ last = <<>>

NotCalled == <<>>

MetaIdle ==
    metadata = <<>> /\ built = NotCalled /\ element_type = "" /\ made = NotCalled

PyNone == [ty |-> "none", n |-> 0]

KnotIdle ==
    /\ list_of_lines = <<>> /\ patch_data = <<>> /\ knots_data = <<>> /\ patches = <<>>
    /\ latest_nurb_dimension = PyNone /\ knot_pc = "idle" /\ knot_raised = NoException
    /\ given_lines = <<>> /\ written_lines = NotCalled

InputIdle == inputs = <<>> /\ last_call = NotCalled /\ n_calls = 0

CodecIdle ==
    /\ dat_casting = EmptyDict /\ mode = "idle" /\ record = <<>> /\ text = <<>>
    /\ line_list = <<>> /\ entry = <<>> /\ pc = "idle" /\ raised = NoException
    /\ round = 0 /\ first_record = <<>> /\ first_text = <<>> /\ popped = <<>>

(***************************************************************************)
(* The codec run: a record is written to a line, a line is read to a       *)
(* record, in turn, MaxRounds conversions in all.                          *)
(***************************************************************************)
InitCodec ==
    /\ dat_casting \in Tables
    /\ \/ /\ mode = "value"
          /\ record \in Records(dat_casting)
          /\ text = <<>>
          /\ pc = "record"
       \/ /\ mode = "text"
          /\ record = <<>>
          /\ text \in Lines(dat_casting)
          /\ pc = "text"
    /\ first_record = record
    /\ first_text = text
    /\ line_list = <<>>
    /\ entry = <<>>
    /\ raised = NoException
    /\ round = 0
    /\ popped = <<>>
    /\ TreeIdle
    /\ MetaIdle
    /\ KnotIdle
    /\ InputIdle

\* write_particle(record)
WriteParticle ==
    /\ pc = "record"
    /\ round < MaxRounds
    /\ text' = write_particle(record)
    /\ first_text' = IF round = 0 THEN write_particle(record) ELSE first_text
    /\ round' = round + 1
    /\ pc' = "text"
    /\ UNCHANGED <<dat_casting, mode, record, line_list, entry, raised, first_record,
                   popped, outside_codec>>

\* read_particle(text, dat_casting): the call, up to the loop of inline_dat_read
ReadParticle ==
    /\ pc = "text"
    /\ round < MaxRounds
    /\ line_list' = Split(text)
    /\ entry' = <<>>
    /\ popped' = <<>>
    /\ pc' = "reading"
    /\ UNCHANGED <<dat_casting, mode, record, text, raised, round, first_record,
                   first_text, outside_codec>>

\* inline_dat_read: one iteration of "while line_list"
ReadKey ==
    /\ pc = "reading"
    /\ line_list # <<>>
    /\ LET it == inline_dat_read_iteration(line_list, entry, dat_casting)
       IN  /\ line_list' = it.line_list
           /\ entry' = it.entry
           /\ raised' = it.exc
           /\ pc' = IF it.exc = NoException THEN "reading" ELSE "raised"
    /\ popped' = Append(popped, [key |-> Head(line_list), rest |-> Tail(line_list)])
    /\ UNCHANGED <<dat_casting, mode, record, text, round, first_record, first_text,
                   outside_codec>>

\* inline_dat_read: the loop ends, the entry is returned
ReadReturn ==
    /\ pc = "reading"
    /\ line_list = <<>>
    /\ record' = entry
    /\ round' = round + 1
    /\ pc' = "record"
    /\ UNCHANGED <<dat_casting, mode, text, line_list, entry, raised, first_record,
                   first_text, popped, outside_codec>>

NextCodec == WriteParticle \/ ReadParticle \/ ReadKey \/ ReadReturn

SpecCodec == InitCodec /\ [][NextCodec]_vars

(***************************************************************************)
(* Claims about the line codec, checked under SpecCodec.                   *)
(***************************************************************************)
\* the tokens a casting function declares to consume
Arity(c) == IF c.fn = "_extract_vector" THEN c.size ELSE 1

\* C1: value side of the round trip: a record whose values have the declared
\* type, choice and length is written, the line is split and read, and the
\* read returns a record equal to the one written.
C1_RoundTripValue ==
    mode = "value" =>
        /\ ~(pc = "raised" /\ round = 1)
        /\ (pc = "record" /\ round = 2) => DictEq(record, first_record)

\* C2: text side of the round trip: a line that is read successfully and
\* written again has the same tokens, in the same order.
C2_RoundTripText ==
    (mode = "text" /\ pc = "text" /\ round = 2) => Split(text) = Split(first_text)

\* C3: a token popped in keyword position that is no key of the casting table
\* ends the read with a KeyError naming that token; no record is returned.
C3_UnknownKeyword ==
    \A i \in 1..Len(popped) :
        popped[i].key \notin DOMAIN dat_casting =>
            /\ i = Len(popped)
            /\ pc = "raised"
            /\ raised = Exc("KeyError", popped[i].key)

C3_Witness ==
    /\ pc = "raised"
    /\ Len(popped) = 2
    /\ popped[2].key = K_FOO
    /\ raised = Exc("KeyError", K_FOO)

\* C4: a keyword followed by fewer tokens than the arity of its casting
\* function ends the read with an error; no value is bound from fewer tokens.
C4_Truncated ==
    \A i \in 1..Len(popped) :
        (/\ popped[i].key \in DOMAIN dat_casting
         /\ Len(popped[i].rest) < Arity(dat_casting[popped[i].key]))
            => (i = Len(popped) /\ pc = "raised")

\* C5: reading an enum field raises the invalid-choice ValueError when the
\* value token is none of the declared choices, and binds the token unchanged
\* when it is one of them.
C5_EnumChoice ==
    (/\ pc \in {"reading", "raised"}
     /\ popped # <<>>
     /\ popped[Len(popped)].key \in DOMAIN dat_casting
     /\ dat_casting[popped[Len(popped)].key].fn = "_extract_enum"
     /\ popped[Len(popped)].rest # <<>>)
        => LET key == popped[Len(popped)].key
               token == popped[Len(popped)].rest[1]
           IN  IF InSeq(token, dat_casting[key].choices)
               THEN /\ pc = "reading"
                    /\ raised = NoException
                    /\ key \in DictKeys(entry)
                    /\ DictGet(entry, key) = PyStr(token)
                    /\ line_list = Tail(popped[Len(popped)].rest)
               ELSE /\ pc = "raised"
                    /\ raised = Exc("ValueError", token)

C5_Witness ==
    /\ pc = "raised"
    /\ popped # <<>>
    /\ popped[Len(popped)].key = K_TYPE
    /\ popped[Len(popped)].rest # <<>>
    /\ raised = Exc("ValueError", popped[Len(popped)].rest[1])

(***************************************************************************)
(* input_specs.py: All_Of and One_Of.  Python objects live in the heap, a  *)
(* sequence of nodes whose index is the object's identity; the specs of a  *)
(* node are the identities of its children, so that a node shared by two   *)
(* parents, or changed in place by a call, is shared and changed in the    *)
(* model too.  An operation takes the heap and returns the heap it leaves, *)
(* with its result or the exception it raised.                             *)
(***************************************************************************)
\* A node's specs attribute holds a Python list, which has an identity of its
\* own: lst numbers the list objects the attribute was bound to during the
\* running call.  Assigning the attribute binds a new list; extend changes the
\* bound list in place.
InputSpec(name) == [kind |-> "input_spec", name |-> name, specs |-> <<>>, lst |-> 0]

Node(kind, specs) == [kind |-> kind, name |-> "", specs |-> specs, lst |-> 0]

\* what is left of an object whose constructor raised: nothing refers to it
Unconstructed == [kind |-> "unconstructed", name |-> "", specs |-> <<>>, lst |-> 0]

Returns(h, val) == [h |-> h, ok |-> TRUE, val |-> val, exc |-> "none"]

Raises(h, exc) == [h |-> h, ok |-> FALSE, val |-> <<>>, exc |-> exc]

\* obj.specs = specs: the attribute is bound to another list
SetSpecs(h, id, specs) == [h EXCEPT ![id].specs = specs, ![id].lst = @ + 1]

\* lst.extend(more) on the list that was bound to the attribute of the object
\* as list number lst: if the attribute was bound to another list since, the
\* extended list is no longer the object's
ExtendSpecs(h, id, lst, more) ==
    IF h[id].lst = lst THEN [h EXCEPT ![id].specs = @ \o more] ELSE h

\* between two calls of the program only the lists the attributes are bound to
\* remain, their numbering starts again
Settle(h) == [i \in 1..Len(h) |-> [h[i] EXCEPT !.lst = 0]]

\* All_Of.is_one_of: "am I a one of in disguise"
is_one_of(h, id) == Len(h[id].specs) = 1 /\ h[h[id].specs[1]].kind = "one_of"

RECURSIVE All_Of_condense(_, _), All_Of_condense_loop(_, _, _, _, _),
          All_Of_init(_, _), All_Of_add_input_specs(_, _, _),
          One_Of_condense_specs(_, _, _, _), One_Of_condense(_, _),
          One_Of_add_input_specs_loop(_, _, _, _, _), Add_input_specs(_, _, _)

\* new_specs = [one_ofs[0].add_input_specs(new_specs)], r the outcome of the call
All_Of_condense_merged(r) == IF r.ok THEN Returns(r.h, <<r.val>>) ELSE r

\* the same with new_specs.append(...) in place of the assignment
All_Of_condense_appended(r, new_specs) ==
    IF r.ok THEN Returns(r.h, Append(new_specs, r.val)) ELSE r

\* the part after the loop as it would be with new_specs.append(...) in place
\* of the assignment: the merged specs stay beside the One_Of
All_Of_condense_finish_append(h, new_specs, one_ofs) ==
    IF Len(one_ofs) > 1
    THEN Raises(h, "ValueError")
    ELSE IF one_ofs # <<>>
         THEN All_Of_condense_appended(Add_input_specs(h, one_ofs[1], new_specs), new_specs)
         ELSE Returns(h, new_specs)

\* All_Of.condense, the part after the loop
All_Of_condense_finish(h, new_specs, one_ofs) ==
    IF Len(one_ofs) > 1
    THEN Raises(h, "ValueError")
    ELSE IF one_ofs # <<>>
         THEN All_Of_condense_merged(Add_input_specs(h, one_ofs[1], new_specs))
         ELSE Returns(h, new_specs)

\* new_specs.extend(All_Of.condense(spec.specs)) and the rest of the loop, r the
\* outcome of the inner condense
All_Of_condense_extend(r, specs, i, new_specs, one_ofs) ==
    IF r.ok
    THEN All_Of_condense_loop(r.h, specs, i + 1, new_specs \o r.val, one_ofs)
    ELSE r

\* All_Of.condense, the loop "for spec in specs" from element i on
All_Of_condense_loop(h, specs, i, new_specs, one_ofs) ==
    IF i > Len(specs)
    THEN All_Of_condense_finish(h, new_specs, one_ofs)
    ELSE LET spec == specs[i]
         IN  CASE h[spec].kind = "input_spec" ->
                    All_Of_condense_loop(h, specs, i + 1, Append(new_specs, spec), one_ofs)
               [] h[spec].kind = "all_of" ->
                    IF is_one_of(h, spec)
                    THEN All_Of_condense_loop(h, specs, i + 1, new_specs,
                                              Append(one_ofs, h[spec].specs[1]))
                    ELSE All_Of_condense_extend(All_Of_condense(h, h[spec].specs),
                                                specs, i, new_specs, one_ofs)
               [] h[spec].kind = "one_of" ->
                    All_Of_condense_loop(h, specs, i + 1, new_specs, Append(one_ofs, spec))
               [] OTHER -> Raises(h, "TypeError")

\* All_Of.condense(specs)
All_Of_condense(h, specs) == All_Of_condense_loop(h, specs, 1, <<>>, <<>>)

\* the new All_Of object with self._specs the outcome r of the condense
All_Of_new(r) ==
    IF r.ok THEN Returns(Append(r.h, Node("all_of", r.val)), Len(r.h) + 1) ELSE r

\* All_Of(specs)
All_Of_init(h, specs) == All_Of_new(All_Of_condense(h, specs))

\* self._specs = r, the outcome of the condense
All_Of_assign(r, self) == IF r.ok THEN Returns(SetSpecs(r.h, self, r.val), self) ELSE r

\* the setter of All_Of.specs
All_Of_set_specs(h, self, value) == All_Of_assign(All_Of_condense(h, value), self)

\* self.specs = self._specs
All_Of_reassign(h, self) == All_Of_set_specs(h, self, h[self].specs)

\* self._specs.extend(r) on the list bound as number lst, then the assignment
All_Of_extend(r, self, lst) ==
    IF r.ok THEN All_Of_reassign(ExtendSpecs(r.h, self, lst, r.val), self) ELSE r

\* All_Of.add_input_specs: the list is extended in place, then assigned
\* through the setter
All_Of_add_input_specs(h, self, input_specs) ==
    All_Of_extend(All_Of_condense(h, input_specs), self, h[self].lst)

\* the branch as it would be without the wrapping: the bare spec
One_Of_wrap_bare(h, spec) == Returns(h, spec)

\* One_Of._condense_specs, case InputSpec(): the branch is All_Of([spec])
One_Of_wrap(h, spec) == All_Of_init(h, <<spec>>)

\* objects.append(r) and the rest of the loop, r the outcome of All_Of(...)
One_Of_append(r, specs, i, objects) ==
    IF r.ok THEN One_Of_condense_specs(r.h, specs, i + 1, Append(objects, r.val)) ELSE r

\* objects.extend(r.specs) and the rest of the loop, r the outcome of
\* One_Of.condense
One_Of_splice(r, specs, i, objects) ==
    IF r.ok
    THEN One_Of_condense_specs(r.h, specs, i + 1, objects \o r.h[r.val].specs)
    ELSE r

\* One_Of._condense_specs, the loop "for spec in specs" from element i on
One_Of_condense_specs(h, specs, i, objects) ==
    IF i > Len(specs)
    THEN Returns(h, objects)
    ELSE LET spec == specs[i]
         IN  CASE h[spec].kind = "input_spec" ->
                    One_Of_append(One_Of_wrap(h, spec), specs, i, objects)
               [] h[spec].kind = "all_of" ->
                    IF is_one_of(h, spec)
                    THEN One_Of_splice(One_Of_condense(h, h[spec].specs[1]),
                                       specs, i, objects)
                    ELSE One_Of_append(All_Of_init(h, h[spec].specs), specs, i, objects)
               [] h[spec].kind = "one_of" ->
                    One_Of_splice(One_Of_condense(h, spec), specs, i, objects)
               [] OTHER -> Raises(h, "TypeError")

\* One_Of.condense after the assignment: the check for a One_Of among the specs
One_Of_checked(h, self) ==
    IF \E i \in 1..Len(h[self].specs) : h[h[self].specs[i]].kind = "one_of"
    THEN Raises(h, "TypeError")
    ELSE Returns(h, self)

\* self.specs = r, the outcome of _condense_specs, then the check
One_Of_assign(r, self) ==
    IF r.ok THEN One_Of_checked(SetSpecs(r.h, self, r.val), self) ELSE r

\* One_Of.condense
One_Of_condense(h, self) ==
    One_Of_assign(One_Of_condense_specs(h, h[self].specs, 1, <<>>), self)

\* the outcome of the constructor: the object, or the exception of condense
One_Of_constructed(r, self) ==
    IF r.ok THEN r ELSE Raises([r.h EXCEPT ![self] = Unconstructed], r.exc)

\* One_Of(specs)
One_Of_init(h, specs) ==
    One_Of_constructed(One_Of_condense(Append(h, Node("one_of", specs)), Len(h) + 1),
                       Len(h) + 1)

\* the rest of the loop after self.specs[i].add_input_specs(input_specs)
\* with outcome r
One_Of_add_next(r, self, input_specs, i, n) ==
    IF r.ok THEN One_Of_add_input_specs_loop(r.h, self, input_specs, i + 1, n) ELSE r

\* One_Of.add_input_specs, the loop "for i in range(len(self.specs))" from i on
One_Of_add_input_specs_loop(h, self, input_specs, i, n) ==
    IF i > n
    THEN One_Of_condense(h, self)
    ELSE IF i > Len(h[self].specs)
         THEN Raises(h, "IndexError")
         ELSE One_Of_add_next(Add_input_specs(h, h[self].specs[i], input_specs),
                              self, input_specs, i, n)

\* One_Of.add_input_specs as it would be with range(len(self.specs) - 1)
One_Of_add_input_specs_short(h, self, input_specs) ==
    One_Of_add_input_specs_loop(h, self, input_specs, 1, Len(h[self].specs) - 1)

\* One_Of.add_input_specs
One_Of_add_input_specs(h, self, input_specs) ==
    One_Of_add_input_specs_loop(h, self, input_specs, 1, Len(h[self].specs))

\* obj.add_input_specs(input_specs), dispatched on the class of obj
Add_input_specs(h, obj, input_specs) ==
    CASE h[obj].kind = "all_of" -> All_Of_add_input_specs(h, obj, input_specs)
      [] h[obj].kind = "one_of" -> One_Of_add_input_specs(h, obj, input_specs)
      [] OTHER -> Raises(h, "AttributeError")

(***************************************************************************)
(* The spec tree run: starting from two leaf specs, the program builds     *)
(* All_Of and One_Of nodes from the objects it holds, adds specs to them   *)
(* and condenses lists of them, MaxOps operations in all.                  *)
(***************************************************************************)
\* the structure below an object, without identities
RECURSIVE TreeVal(_, _)
TreeVal(h, id) ==
    [kind |-> h[id].kind, name |-> h[id].name,
     specs |-> [i \in 1..Len(h[id].specs) |-> TreeVal(h, h[id].specs[i])]]

ListVal(h, ids) == [i \in 1..Len(ids) |-> TreeVal(h, ids[i])]

\* the objects reachable from an object, itself included
RECURSIVE Reach(_, _)
Reach(h, id) == {id} \cup UNION {Reach(h, h[id].specs[i]) : i \in 1..Len(h[id].specs)}

RefSet == {refs[i] : i \in 1..Len(refs)}

SpecLists == UNION {[1..n -> RefSet] : n \in 0..MaxSpecs}

\* a list that does not contain the receiver: Python objects form no cycle
Apart(self, input_specs) ==
    \A i \in 1..Len(input_specs) : self \notin Reach(heap, input_specs[i])

OpCount == IF last = <<>> THEN 0 ELSE last.n

Record(op, self, args, r, res) ==
    [n |-> OpCount + 1, op |-> op, self |-> self, args |-> args, ok |-> r.ok,
     exc |-> r.exc, res |-> IF r.ok THEN res ELSE <<>>, pre |-> heap]

\* the state after a call with outcome r: the heap it left, the reference to
\* the object a constructor returned, the record of the call
After(op, self, args, r, is_new) ==
    /\ heap' = Settle(r.h)
    /\ refs' = IF is_new /\ r.ok THEN Append(refs, r.val) ELSE refs
    /\ last' = Record(op, self, args, r, IF op \in {"All_Of.condense", "All_Of.condense again"}
                                         THEN r.val ELSE <<r.val>>)

InitTree ==
    /\ heap = <<InputSpec("a"), InputSpec("b")>>
    /\ refs = <<1, 2>>
    /\ last = <<>>
    /\ CodecIdle
    /\ MetaIdle
    /\ KnotIdle
    /\ InputIdle

\* x = All_Of(specs)
NewAllOf ==
    /\ OpCount < MaxOps
    /\ \E specs \in SpecLists :
        After("All_Of", 0, specs, All_Of_init(heap, specs), TRUE)
    /\ UNCHANGED outside_tree

\* x = One_Of(specs)
NewOneOf ==
    /\ OpCount < MaxOps
    /\ \E specs \in SpecLists :
        After("One_Of", 0, specs, One_Of_init(heap, specs), TRUE)
    /\ UNCHANGED outside_tree

\* x.add_input_specs(input_specs) on an All_Of x
AllOfAddInputSpecs ==
    /\ OpCount < MaxOps
    /\ \E self \in RefSet, input_specs \in SpecLists :
        /\ heap[self].kind = "all_of"
        /\ Apart(self, input_specs)
        /\ After("All_Of.add_input_specs", self, input_specs,
                 All_Of_add_input_specs(heap, self, input_specs), FALSE)
    /\ UNCHANGED outside_tree

\* x.specs = value on an All_Of x
AllOfSetSpecs ==
    /\ OpCount < MaxOps
    /\ \E self \in RefSet, value \in SpecLists :
        /\ heap[self].kind = "all_of"
        /\ Apart(self, value)
        /\ After("All_Of.specs", self, value, All_Of_set_specs(heap, self, value), FALSE)
    /\ UNCHANGED outside_tree

\* x.add_input_specs(input_specs) on a One_Of x
OneOfAddInputSpecs ==
    /\ OpCount < MaxOps
    /\ \E self \in RefSet, input_specs \in SpecLists :
        /\ heap[self].kind = "one_of"
        /\ Apart(self, input_specs)
        /\ After("One_Of.add_input_specs", self, input_specs,
                 One_Of_add_input_specs(heap, self, input_specs), FALSE)
    /\ UNCHANGED outside_tree

\* All_Of.condense(specs) on a list of objects the program holds
Condense ==
    /\ OpCount < MaxOps
    /\ \E specs \in SpecLists :
        After("All_Of.condense", 0, specs, All_Of_condense(heap, specs), FALSE)
    /\ UNCHANGED outside_tree

\* All_Of.condense(xs) on the list xs the last All_Of.condense returned
CondenseResult ==
    /\ last # <<>>
    /\ last.op \in {"All_Of.condense", "All_Of.condense again"}
    /\ last.ok
    /\ last.n <= MaxOps
    /\ After("All_Of.condense again", 0, last.res, All_Of_condense(heap, last.res), FALSE)
    /\ UNCHANGED outside_tree

NextTree ==
    \/ NewAllOf
    \/ NewOneOf
    \/ AllOfAddInputSpecs
    \/ AllOfSetSpecs
    \/ OneOfAddInputSpecs
    \/ Condense
    \/ CondenseResult

SpecTree == InitTree /\ [][NextTree]_vars

(***************************************************************************)
(* Claims about All_Of and One_Of, checked under SpecTree.                 *)
(***************************************************************************)
IsOneOf(h, id) == h[id].kind = "one_of"

\* the One_Of a spec of a list stands for: itself, or the only child of an
\* All_Of that is a One_Of in disguise
StandsForOneOf(h, id) ==
    IsOneOf(h, id) \/ (h[id].kind = "all_of" /\ is_one_of(h, id))

TheOneOf(h, id) == IF IsOneOf(h, id) THEN id ELSE h[id].specs[1]

OneOfPositions(h, specs) == {i \in 1..Len(specs) : StandsForOneOf(h, specs[i])}

SeqSet(q) == {q[i] : i \in 1..Len(q)}

\* the specs the other children of the list contribute
SharedSpecs(h, specs) ==
    UNION {IF h[specs[i]].kind = "input_spec" THEN {specs[i]} ELSE SeqSet(h[specs[i]].specs) :
              i \in (1..Len(specs)) \ OneOfPositions(h, specs)}

Done(op) == last # <<>> /\ last.op = op

\* C6: All_Of.condense is idempotent: condensing the list a successful
\* condense returned succeeds and returns a structurally equal list.
C6_CondenseIdempotent ==
    [][(last' # <<>> /\ last'.op = "All_Of.condense again" /\ last' # last)
          => (last'.ok /\ ListVal(heap', last'.res) = ListVal(heap, last.res))]_vars

C6_Witness ==
    /\ Done("All_Of.condense again")
    /\ last.ok
    /\ Len(last.res) = 1
    /\ IsOneOf(heap, last.res[1])
    /\ Len(heap[last.res[1]].specs) = 2
    /\ \A i \in 1..2 : Len(heap[heap[last.res[1]].specs[i]].specs) = 2

\* C7: at every moment after its construction an All_Of has at most one
\* One_Of among its direct children, whatever operation ran last and whether
\* it returned or raised; and condensing a list that yields two or more
\* One_Of raises.
C7_AtMostOneOneOf ==
    /\ \A id \in 1..Len(heap) :
          heap[id].kind = "all_of" =>
              Cardinality({i \in 1..Len(heap[id].specs) :
                              IsOneOf(heap, heap[id].specs[i])}) <= 1
    /\ (/\ last # <<>>
        /\ last.op \in {"All_Of", "All_Of.condense", "All_Of.specs"}
        /\ Cardinality(OneOfPositions(last.pre, last.args)) >= 2)
          => (~last.ok /\ last.exc = "ValueError")

\* C8: when exactly one spec of the condensed list stands for a One_Of, the
\* result is the one-element list holding that One_Of, it has a branch for
\* each branch it had, and every branch holds its own specs and every spec the
\* other children of the list contribute.
C8_SharedInEveryBranch ==
    (/\ last # <<>>
     /\ last.op = "All_Of.condense"
     /\ last.ok
     /\ Cardinality(OneOfPositions(last.pre, last.args)) = 1)
        => LET at == CHOOSE i \in OneOfPositions(last.pre, last.args) : TRUE
               one_of == TheOneOf(last.pre, last.args[at])
               before == last.pre[one_of].specs
               after == heap[one_of].specs
           IN  /\ last.res = <<one_of>>
               /\ IsOneOf(heap, one_of)
               /\ Len(after) = Len(before)
               /\ \A j \in 1..Len(after) :
                      /\ heap[after[j]].kind = "all_of"
                      /\ SeqSet(last.pre[before[j]].specs) \subseteq SeqSet(heap[after[j]].specs)
                      /\ SharedSpecs(last.pre, last.args) \subseteq SeqSet(heap[after[j]].specs)

C8_Witness ==
    /\ Done("All_Of.condense")
    /\ last.ok
    /\ Cardinality(OneOfPositions(last.pre, last.args)) = 1
    /\ SharedSpecs(last.pre, last.args) # {}
    /\ Len(heap[last.res[1]].specs) = 2
    /\ \E j \in 1..2 : ~(SeqSet(heap[heap[last.res[1]].specs[j]].specs)
                            \subseteq SharedSpecs(last.pre, last.args))

\* C9: One_Of(specs) with a One_Of among specs raises the error of a One_Of in
\* a One_Of.
C9_NestedOneOfRaises ==
    (/\ last # <<>>
     /\ last.op = "One_Of"
     /\ \E i \in 1..Len(last.args) : IsOneOf(last.pre, last.args[i]))
        => (~last.ok /\ last.exc = "TypeError")

C28_CondenseKeepsNodes ==
    [][(last' # last /\ last'.op = "All_Of.condense" /\ last'.ok)
         => /\ \A i \in 1..Len(last'.args) :
                  IsOneOf(heap, last'.args[i])
                     => TreeVal(heap', last'.args[i]) = TreeVal(heap, last'.args[i])
            /\ (last # <<>> /\ last.op = "All_Of.condense" /\ last.ok
                   /\ last.args = last'.args)
                  => ListVal(heap', last'.res) = ListVal(heap, last.res)]_vars

(***************************************************************************)
(* input_specs.py: the constructors of Vector and Map.  The object given   *)
(* as value_type is modelled by its class.                                 *)
(***************************************************************************)
NATIVE_CPP_TYPES == {"Primitive", "Enum", "Vector", "Map"}

\* the classes of spec nodes of input_specs.py
SpecClasses == NATIVE_CPP_TYPES \cup {"Selection", "Group", "List", "All_Of", "One_Of"}

Constructed(spec_type, value_type_) ==
    [ok |-> TRUE, exc |-> "none", spec_type |-> spec_type, value_type |-> value_type_]

NotConstructed(exc) == [ok |-> FALSE, exc |-> exc, spec_type |-> "", value_type |-> ""]

\* Vector(value_type)
Vector_init(value_type_) ==
    IF value_type_ \notin NATIVE_CPP_TYPES
    THEN NotConstructed("TypeError")
    ELSE Constructed("vector", value_type_)

\* Map(value_type)
Map_init(value_type_) == Constructed("map", value_type_)

(***************************************************************************)
(* The metadata run: casting_factory is called on a metadata tree, or      *)
(* Vector or Map is constructed for an element type.                       *)
(***************************************************************************)
MdNames == {K_MAT, K_NAME}

\* the leaves of a metadata tree: a scalar and an enum of one name, a vector
\* of the other
MdLeaves ==
    { MdPrimitive("int", K_MAT),
      MdEnum(K_MAT, << <<"l", "i", "n">>, <<"n", "o", "n">> >>),
      MdVector(K_NAME, "double", 2) }

MdSeqs(S) == UNION {[1..n -> S] : n \in 0..MaxChildren}

\* the metadata trees with at most d collections nested
RECURSIVE MdTrees(_)
MdTrees(d) ==
    IF d = 0
    THEN MdLeaves
    ELSE LET below == MdTrees(d - 1)
             inner == MdSeqs(below)
         IN  MdLeaves
               \cup {MdCollection("list", K_MAT, <<>>), MdCollection("selection", K_MAT, <<>>)}
               \cup {MdCollection(t, <<>>, specs) : t \in {"all_of", "one_of"}, specs \in inner}
               \cup {MdCollection("group", n, specs) : n \in MdNames, specs \in inner}

InitMeta ==
    /\ \/ metadata \in MdTrees(MaxDepth) /\ element_type = ""
       \/ metadata = <<>> /\ element_type \in SpecClasses
    /\ built = NotCalled
    /\ made = NotCalled
    /\ CodecIdle
    /\ TreeIdle
    /\ KnotIdle
    /\ InputIdle

\* casting_factory(metadata)
CastingFactory ==
    /\ metadata # <<>>
    /\ built = NotCalled
    /\ built' = casting_factory(metadata)
    /\ UNCHANGED <<metadata, element_type, made, outside_meta>>

\* Vector(value_type=element_type)
NewVector ==
    /\ element_type # ""
    /\ made = NotCalled
    /\ made' = Vector_init(element_type)
    /\ UNCHANGED <<metadata, element_type, built, outside_meta>>

\* Map(value_type=element_type)
NewMap ==
    /\ element_type # ""
    /\ made = NotCalled
    /\ made' = Map_init(element_type)
    /\ UNCHANGED <<metadata, element_type, built, outside_meta>>

NextMeta == CastingFactory \/ NewVector \/ NewMap

SpecMeta == InitMeta /\ [][NextMeta]_vars

(***************************************************************************)
(* Claims about Vector, Map and casting_factory, checked under SpecMeta.   *)
(***************************************************************************)
\* C11: constructing a Vector or a Map succeeds exactly when the element type
\* is a Primitive, Enum, Vector or Map, and fails with a TypeError for a
\* Group, List, Selection, All_Of or One_Of.
C11_ElementTypeChecked ==
    made # NotCalled =>
        /\ made.ok <=> element_type \in {"Primitive", "Enum", "Vector", "Map"}
        /\ ~made.ok => made.exc = "TypeError"

MdCollections == {"all_of", "group", "one_of"}

MdLeafTypes == {"int", "double", "bool", "string", "enum", "vector"}

\* a node of a kind the table builder does not know occurs in the tree
RECURSIVE HasUnsupported(_)
HasUnsupported(node) ==
    IF node.type \in MdLeafTypes THEN FALSE
    ELSE IF node.type \in MdCollections
    THEN \E i \in 1..Len(node.specs) : HasUnsupported(node.specs[i])
    ELSE TRUE

\* the nodes that contribute an entry to the flat mapping of a node, in the
\* order of the tree: a leaf or a group itself, the members of the children of
\* an all_of or one_of
RECURSIVE Members(_), MembersOf(_)
Members(node) ==
    IF node.type \in {"all_of", "one_of"} THEN MembersOf(node.specs) ELSE <<node>>

MembersOf(specs) ==
    IF specs = <<>> THEN <<>> ELSE Members(Head(specs)) \o MembersOf(Tail(specs))

\* the last of the members of a name
LastNamed(members, n) ==
    members[CHOOSE i \in 1..Len(members) :
                /\ members[i].name = n
                /\ \A j \in (i + 1)..Len(members) : members[j].name # n]

\* the decoder of a leaf: what it extracts and how many tokens
DecoderOf(leaf) ==
    CASE leaf.type = "enum" ->
            [fn |-> "_extract_enum", entry_type |-> "", size |-> 0,
             choices |-> [i \in 1..Len(leaf.choices) |-> leaf.choices[i].name]]
      [] leaf.type = "vector" ->
            [fn |-> "_extract_vector", entry_type |-> "float", size |-> leaf.size,
             choices |-> <<>>]
      [] leaf.type = "int" ->
            [fn |-> "_extract_entry", entry_type |-> "int", size |-> 0, choices |-> <<>>]

\* mapping is the flat mapping of the members: one entry for each name, the
\* decoder of the leaf of that name or the mapping of the group of that name
\* (of the last member of that name, where several have it)
RECURSIVE FlatMapping(_, _)
FlatMapping(mapping, members) ==
    /\ DOMAIN mapping = {members[i].name : i \in 1..Len(members)}
    /\ \A n \in DOMAIN mapping :
          IF LastNamed(members, n).type = "group"
          THEN FlatMapping(mapping[n], MembersOf(LastNamed(members, n).specs))
          ELSE mapping[n] = DecoderOf(LastNamed(members, n))

C13_DuplicateNameFails ==
    (/\ built # NotCalled
     /\ metadata.type = "all_of"
     /\ \E i, j \in 1..Len(metadata.specs) :
           /\ i < j
           /\ metadata.specs[i].type \in MdLeafTypes
           /\ metadata.specs[j].type \in MdLeafTypes
           /\ metadata.specs[i].name = metadata.specs[j].name)
        => ~built.ok

\* the names of the fields a branch declares
FieldNames(branch) == {Members(branch)[i].name : i \in 1..Len(Members(branch))}

\* the last of the branches that declares a field of name n
LastBranch(branches, n) ==
    branches[CHOOSE j \in 1..Len(branches) :
                 /\ n \in FieldNames(branches[j])
                 /\ \A k \in (j + 1)..Len(branches) : n \notin FieldNames(branches[k])]

\* decoder is the entry of the table for member: the decoder of a leaf, the
\* table of a group
EntryOf(decoder, member) ==
    IF member.type = "group"
    THEN FlatMapping(decoder, MembersOf(member.specs))
    ELSE decoder = DecoderOf(member)

\* C27: for a one_of two of whose branches declare a field of the same name,
\* casting_factory returns a flat table, with no error, whose entry under that
\* name is the one of the branch listed last among them; what the branches
\* before declare under that name is dropped.
C27_LaterBranchWins ==
    (/\ built # NotCalled
     /\ metadata.type = "one_of"
     /\ ~HasUnsupported(metadata))
        => \A i, j \in 1..Len(metadata.specs) :
              \A n \in FieldNames(metadata.specs[i]) \cap FieldNames(metadata.specs[j]) :
                 i < j
                    => /\ built.ok
                       /\ n \in DOMAIN built.val
                       /\ EntryOf(built.val[n],
                                  LastNamed(Members(LastBranch(metadata.specs, n)), n))

\* a one_of of two all_of branches, the first with the int MAT and the vector
\* NAME, the second with the enum MAT: the table has the enum under MAT
C27_Witness ==
    /\ built # NotCalled
    /\ built.ok
    /\ metadata.type = "one_of"
    /\ Len(metadata.specs) = 2
    /\ metadata.specs[1] = MdCollection("all_of", <<>>, <<MdPrimitive("int", K_MAT),
                                                          MdVector(K_NAME, "double", 2)>>)
    /\ metadata.specs[2] = MdCollection("all_of", <<>>,
                                        <<MdEnum(K_MAT, << <<"l", "i", "n">>, <<"n", "o", "n">> >>)>>)
    /\ DOMAIN built.val = {K_MAT, K_NAME}
    /\ built.val[K_MAT].fn = "_extract_enum"

(***************************************************************************)
(* knotvectors.py: reading and writing the knot vectors section.  A line   *)
(* is a sequence of characters; a dict is a function on its keys.          *)
(***************************************************************************)
K_BEGIN == <<"B", "E", "G", "I", "N">>
K_END == <<"E", "N", "D">>
K_ID == <<"I", "D">>
K_NURBS_DIMENSION == <<"N", "U", "R", "B", "S", "_", "D", "I", "M", "E", "N", "S", "I", "O", "N">>
K_NUMKNOTS == <<"N", "U", "M", "K", "N", "O", "T", "S">>
K_DEGREE == <<"D", "E", "G", "R", "E", "E">>
K_knot_vectors == <<"k", "n", "o", "t", "_", "v", "e", "c", "t", "o", "r", "s">>
K_knots == <<"k", "n", "o", "t", "s">>
K_NURBSPATCH == <<"N", "U", "R", "B", "S", "P", "A", "T", "C", "H">>
K_Interpolated == <<"I", "n", "t", "e", "r", "p", "o", "l", "a", "t", "e", "d">>
K_Periodic == <<"P", "e", "r", "i", "o", "d", "i", "c">>

\* _extract_entry(line_list, extractor=...) as knotvectors.py calls it
_extract_entry_extractor(line_list_, extractor) == _extract_entry(line_list_, extractor)

\* _extract_vector(line_list, extractor=..., size=...) as knotvectors.py calls it
_extract_vector_extractor(line_list_, extractor, size) ==
    _extract_vector(line_list_, extractor, size)

NURBS_PATCH_CASTING ==
    (K_ID :> Partial("_extract_entry", "int", 0, <<>>))
    @@ (K_NURBS_DIMENSION :> Partial("_extract_entry", "int", 0, <<>>))

KNOT_VECTORS_CASTING ==
    (K_NUMKNOTS :> Partial("_extract_entry", "int", 0, <<>>))
    @@ (K_DEGREE :> Partial("_extract_entry", "int", 0, <<>>))
    @@ (K_TYPE :> Partial("_extract_enum", "", 0, <<K_Interpolated, K_Periodic>>))

\* calling an entry of the two casting dicts on the token list
CallKnotCasting(c, line_list_) ==
    CASE c.fn = "_extract_entry" -> _extract_entry_extractor(line_list_, c.entry_type)
      [] c.fn = "_extract_enum" -> _extract_enum(line_list_, c.choices)

\* d.pop(k) and del d[k]: the dict without the key
DictRemove(d, k) == [x \in (DOMAIN d) \ {k} |-> d[x]]

\* d[k] = v
DictPut(d, k, v) == DictUpdate(d, k :> v)

\* str(x) for an int or None
IntOrNoneToStr(x) == IF x = PyNone THEN <<"N", "o", "n", "e">> ELSE IntToStr(x.n)

\* f"Expected {nurbs_dimension_expected} knot vectors, got {nurbs_dimension}"
ExpectedMessage(nurbs_dimension_expected, nurbs_dimension) ==
    <<"E", "x", "p", "e", "c", "t", "e", "d", " ">> \o IntOrNoneToStr(nurbs_dimension_expected)
        \o <<" ", "k", "n", "o", "t", " ", "v", "e", "c", "t", "o", "r", "s", ",", " ", "g", "o", "t", " ">> \o IntToStr(nurbs_dimension)

\* f"Could not read line: {line}"
CouldNotReadMessage(line) == <<"C", "o", "u", "l", "d", " ", "n", "o", "t", " ", "r", "e", "a", "d", " ", "l", "i", "n", "e", ":", " ">> \o line

\* the state of read_knotvectors after an iteration of its loop, with the
\* exception the iteration raised
KnotState(lines, patch_data_, knots_data_, patches_, latest, exc) ==
    [list_of_lines |-> lines, patch_data |-> patch_data_, knots_data |-> knots_data_,
     patches |-> patches_, latest_nurb_dimension |-> latest, exc |-> exc]

\* the END branch without the check of the dimension
Knot_end_unchecked(lines, patch_data_, knots_data_, patches_, latest) ==
    IF K_knot_vectors \notin DOMAIN patch_data_
    THEN KnotState(lines, patch_data_, knots_data_, patches_, latest,
                   Exc("KeyError", K_knot_vectors))
    ELSE KnotState(lines, EmptyDict, knots_data_, Append(patches_, patch_data_), latest,
                   NoException)

\* key == "END", after the pop of NURBS_DIMENSION: the check of the dimension,
\* the patch appended, patch_data reset
Knot_end(lines, patch_data_, knots_data_, patches_, latest) ==
    IF K_knot_vectors \notin DOMAIN patch_data_
    THEN KnotState(lines, patch_data_, knots_data_, patches_, latest,
                   Exc("KeyError", K_knot_vectors))
    ELSE IF PyInt(Len(patch_data_[K_knot_vectors])) # latest
    THEN KnotState(lines, patch_data_, knots_data_, patches_, latest,
                   Exc("ValueError",
                       ExpectedMessage(latest, Len(patch_data_[K_knot_vectors]))))
    ELSE KnotState(lines, EmptyDict, knots_data_, Append(patches_, patch_data_), latest,
                   NoException)

\* patch_data[key] = NURBS_PATCH_CASTING[key](line_list), r the outcome of the call
Knot_patch_entry(r, key, lines, patch_data_, knots_data_, patches_, latest) ==
    IF r.res.ok
    THEN KnotState(lines, DictPut(patch_data_, key, r.res.val), knots_data_, patches_,
                   latest, NoException)
    ELSE KnotState(lines, patch_data_, knots_data_, patches_, latest, r.res.exc)

\* knots_data[key] = KNOT_VECTORS_CASTING[key](line_list), r the outcome of the call
Knot_knots_entry(r, key, lines, patch_data_, knots_data_, patches_, latest) ==
    IF r.res.ok
    THEN KnotState(lines, patch_data_, DictPut(knots_data_, key, r.res.val), patches_,
                   latest, NoException)
    ELSE KnotState(lines, patch_data_, knots_data_, patches_, latest, r.res.exc)

\* the key value case as it would be if a line of an unknown key were skipped
Knot_key_value_lenient(key, line_list_, line, lines, patch_data_, knots_data_, patches_, latest) ==
    IF key = K_BEGIN
    THEN KnotState(lines, DictPut(patch_data_, K_knot_vectors, <<>>), knots_data_,
                   patches_, latest, NoException)
    ELSE IF key = K_END
    THEN IF K_NURBS_DIMENSION \in DOMAIN patch_data_
         THEN Knot_end(lines, DictRemove(patch_data_, K_NURBS_DIMENSION), knots_data_,
                       patches_, patch_data_[K_NURBS_DIMENSION])
         ELSE Knot_end(lines, patch_data_, knots_data_, patches_, latest)
    ELSE IF key \in DOMAIN NURBS_PATCH_CASTING
    THEN Knot_patch_entry(CallKnotCasting(NURBS_PATCH_CASTING[key], line_list_), key,
                          lines, patch_data_, knots_data_, patches_, latest)
    ELSE IF key \in DOMAIN KNOT_VECTORS_CASTING
    THEN Knot_knots_entry(CallKnotCasting(KNOT_VECTORS_CASTING[key], line_list_), key,
                          lines, patch_data_, knots_data_, patches_, latest)
    ELSE KnotState(lines, patch_data_, knots_data_, patches_, latest, NoException)

\* the key value case: len(line_list) == 2, key popped from line_list
Knot_key_value(key, line_list_, line, lines, patch_data_, knots_data_, patches_, latest) ==
    IF key = K_BEGIN
    THEN KnotState(lines, DictPut(patch_data_, K_knot_vectors, <<>>), knots_data_,
                   patches_, latest, NoException)
    ELSE IF key = K_END
    THEN IF K_NURBS_DIMENSION \in DOMAIN patch_data_
         THEN Knot_end(lines, DictRemove(patch_data_, K_NURBS_DIMENSION), knots_data_,
                       patches_, patch_data_[K_NURBS_DIMENSION])
         ELSE Knot_end(lines, patch_data_, knots_data_, patches_, latest)
    ELSE IF key \in DOMAIN NURBS_PATCH_CASTING
    THEN Knot_patch_entry(CallKnotCasting(NURBS_PATCH_CASTING[key], line_list_), key,
                          lines, patch_data_, knots_data_, patches_, latest)
    ELSE IF key \in DOMAIN KNOT_VECTORS_CASTING
    THEN Knot_knots_entry(CallKnotCasting(KNOT_VECTORS_CASTING[key], line_list_), key,
                          lines, patch_data_, knots_data_, patches_, latest)
    ELSE KnotState(lines, patch_data_, knots_data_, patches_, latest,
                   Exc("ValueError", CouldNotReadMessage(line)))

\* the values only case after float(line_list[0]) gave first and
\* knots_data.pop("NUMKNOTS") was done: v the outcome of _extract_vector on the
\* list of lines
Knot_values_read(first, v, patch_data_, knots_data_, patches_, latest) ==
    IF ~v.res.ok
    THEN KnotState(v.rest, patch_data_, knots_data_, patches_, latest, v.res.exc)
    ELSE IF K_knot_vectors \notin DOMAIN patch_data_
    THEN KnotState(v.rest, patch_data_,
                   DictPut(knots_data_, K_knots, PyList(<<first>> \o v.res.val.items)),
                   patches_, latest, Exc("KeyError", K_knot_vectors))
    ELSE KnotState(v.rest,
                   DictPut(patch_data_, K_knot_vectors,
                           Append(patch_data_[K_knot_vectors],
                                  DictPut(knots_data_, K_knots,
                                          PyList(<<first>> \o v.res.val.items)))),
                   EmptyDict, patches_, latest, NoException)

\* the values only case: len(line_list) == 1, f the outcome of float(line_list[0])
Knot_values(f, lines, patch_data_, knots_data_, patches_, latest) ==
    IF ~f.ok
    THEN KnotState(lines, patch_data_, knots_data_, patches_, latest, f.exc)
    ELSE IF K_NUMKNOTS \notin DOMAIN knots_data_
    THEN KnotState(lines, patch_data_, knots_data_, patches_, latest,
                   Exc("KeyError", K_NUMKNOTS))
    ELSE Knot_values_read(f.val,
                          _extract_vector_extractor(lines, "float",
                                                    knots_data_[K_NUMKNOTS].n - 1),
                          patch_data_, DictRemove(knots_data_, K_NUMKNOTS), patches_, latest)

\* the iteration as it would be if a blank line were put back at the end of
\* the list
Knot_line_blank_requeued(line, line_list_, lines, patch_data_, knots_data_, patches_, latest) ==
    IF Strip(line) = <<>>
    THEN KnotState(Append(lines, line), patch_data_, knots_data_, patches_, latest, NoException)
    ELSE IF Len(line_list_) = 2
    THEN Knot_key_value(line_list_[1], Tail(line_list_), line, lines, patch_data_,
                        knots_data_, patches_, latest)
    ELSE IF Len(line_list_) = 1
    THEN Knot_values(PyFloatOf(line_list_[1]), lines, patch_data_, knots_data_, patches_,
                     latest)
    ELSE KnotState(lines, patch_data_, knots_data_, patches_, latest,
                   Exc("ValueError", CouldNotReadMessage(line)))

\* the line popped and split: the three cases of the number of tokens
Knot_line(line, line_list_, lines, patch_data_, knots_data_, patches_, latest) ==
    IF Strip(line) = <<>>
    THEN KnotState(lines, patch_data_, knots_data_, patches_, latest, NoException)
    ELSE IF Len(line_list_) = 2
    THEN Knot_key_value(line_list_[1], Tail(line_list_), line, lines, patch_data_,
                        knots_data_, patches_, latest)
    ELSE IF Len(line_list_) = 1
    THEN Knot_values(PyFloatOf(line_list_[1]), lines, patch_data_, knots_data_, patches_,
                     latest)
    ELSE KnotState(lines, patch_data_, knots_data_, patches_, latest,
                   Exc("ValueError", CouldNotReadMessage(line)))

\* read_knotvectors: one iteration of "while list_of_lines"
read_knotvectors_iteration(lines, patch_data_, knots_data_, patches_, latest) ==
    Knot_line(Head(lines), Split(Head(lines)), Tail(lines), patch_data_, knots_data_,
              patches_, latest)

\* the lines of one knot vector, from knot i on
RECURSIVE KnotLines(_, _)
KnotLines(knots, i) ==
    IF i > Len(knots) THEN <<>>
    ELSE <<PyStrRepr(knots[i])>> \o KnotLines(knots, i + 1)

\* write_patch: the loop "for knot_vector in patch['knot_vectors']" from
\* knot vector i on, and the END line
RECURSIVE write_knot_vectors_from(_, _, _)
write_knot_vectors_from(knot_vectors, i, patch_lines) ==
    IF i > Len(knot_vectors)
    THEN Ok(Append(patch_lines, K_END \o <<" ">> \o K_NURBSPATCH))
    ELSE IF K_knots \notin DOMAIN knot_vectors[i] THEN Fail("KeyError", K_knots)
    ELSE IF K_DEGREE \notin DOMAIN knot_vectors[i] THEN Fail("KeyError", K_DEGREE)
    ELSE IF K_TYPE \notin DOMAIN knot_vectors[i] THEN Fail("KeyError", K_TYPE)
    ELSE write_knot_vectors_from(
             knot_vectors, i + 1,
             patch_lines
               \o << K_NUMKNOTS \o <<" ">> \o IntToStr(Len(knot_vectors[i][K_knots].items)),
                     K_DEGREE \o <<" ">> \o PyStrRepr(knot_vectors[i][K_DEGREE]),
                     K_TYPE \o <<" ">> \o PyStrRepr(knot_vectors[i][K_TYPE]) >>
               \o KnotLines(knot_vectors[i][K_knots].items, 1))

\* write_knotvectors.write_patch
write_patch(patch) ==
    IF K_knot_vectors \notin DOMAIN patch THEN Fail("KeyError", K_knot_vectors)
    ELSE IF K_ID \notin DOMAIN patch THEN Fail("KeyError", K_ID)
    ELSE write_knot_vectors_from(
             patch[K_knot_vectors], 1,
             << K_NURBS_DIMENSION \o <<" ">> \o IntToStr(Len(patch[K_knot_vectors])),
                K_BEGIN \o <<" ">> \o K_NURBSPATCH,
                K_ID \o <<" ">> \o PyStrRepr(patch[K_ID]) >>)

\* lines.extend(write_patch(patch)) and the rest of the loop, w the outcome of
\* write_patch
RECURSIVE write_knotvectors_from(_, _, _)
write_knotvectors_extend(w, patches_, i, lines) ==
    IF w.ok THEN write_knotvectors_from(patches_, i + 1, lines \o w.val) ELSE w

\* write_knotvectors: the loop "for patch in patches" from patch i on
write_knotvectors_from(patches_, i, lines) ==
    IF i > Len(patches_) THEN Ok(lines)
    ELSE write_knotvectors_extend(write_patch(patches_[i]), patches_, i, lines)

\* write_knotvectors
write_knotvectors(patches_) == write_knotvectors_from(patches_, 1, <<>>)

(***************************************************************************)
(* The knot vectors run: read_knotvectors is called on a list of lines,    *)
(* and write_knotvectors on the patches it returns.  The lists are the     *)
(* well-formed sections of up to MaxPatches patches of up to MaxBlocks     *)
(* knot vectors, and these with one line removed, added or replaced.       *)
(***************************************************************************)
\* the knot lines of the knot vectors of the model, by number of knots
KnotsOf(numknots) == SubSeq(<< <<"0", ".", "5">>, <<"1">> >>, 1, numknots)

\* the lines of a knot vector of numknots knots as the section gives them
BlockLines(numknots) ==
    << K_NUMKNOTS \o <<" ">> \o IntToStr(numknots),
       K_DEGREE \o <<" ", " ", "2">>,
       K_TYPE \o <<" ">> \o K_Interpolated >> \o KnotsOf(numknots)

RECURSIVE BlocksLines(_)
BlocksLines(blocks) ==
    IF blocks = <<>> THEN <<>> ELSE BlockLines(Head(blocks)) \o BlocksLines(Tail(blocks))

\* the lines of a patch with knot vectors of the given numbers of knots
PatchLines(blocks) ==
    << K_NURBS_DIMENSION \o <<" ">> \o IntToStr(Len(blocks)),
       K_BEGIN \o <<" ">> \o K_NURBSPATCH,
       K_ID \o <<" ", "1">> >>
      \o BlocksLines(blocks)
      \o << K_END \o <<" ">> \o K_NURBSPATCH >>

RECURSIVE SectionLines(_)
SectionLines(section) ==
    IF section = <<>> THEN <<>> ELSE PatchLines(Head(section)) \o SectionLines(Tail(section))

\* the patches of the model: the numbers of knots of their knot vectors, which
\* differ from one knot vector to the next
KnotPatches ==
    {blocks \in UNION {[1..n -> 1..2] : n \in 0..MaxBlocks} :
        \A i \in 1..(Len(blocks) - 1) : blocks[i] # blocks[i + 1]}

KnotSections == UNION {[1..n -> KnotPatches] : n \in 0..MaxPatches}

\* the lines put in the place of a line or between two lines
OtherLines ==
    { K_NURBS_DIMENSION \o <<" ", "1">>,
      K_NURBS_DIMENSION \o <<" ", "2">>,
      K_BEGIN \o <<" ">> \o K_NURBSPATCH,
      K_ID \o <<" ", "1">>,
      K_NUMKNOTS \o <<" ", "0">>,
      K_NUMKNOTS \o <<" ", "1">>,
      K_TYPE \o <<" ">> \o K_Periodic,
      K_END \o <<" ">> \o K_NURBSPATCH,
      <<"0", ".", "5">>,
      <<"x">>,
      <<>>,
      <<" ">>,
      <<"u", "n", "k", "n", "o", "w", "n", "_", "k", "e", "y", "w", "o", "r", "d", " ", "1">>,
      <<"t", "o", "o", " ", "m", "a", "n", "y", " ", "e", "n", "t", "r", "i", "e", "s">> }

Removed(lines, i) == SubSeq(lines, 1, i - 1) \o SubSeq(lines, i + 1, Len(lines))

Added(lines, i, line) == SubSeq(lines, 1, i - 1) \o <<line>> \o SubSeq(lines, i, Len(lines))

Replaced(lines, i, line) == [lines EXCEPT ![i] = line]

Variants(lines) ==
    {lines}
      \cup {Removed(lines, i) : i \in 1..Len(lines)}
      \cup {Added(lines, i, line) : i \in 1..(Len(lines) + 1), line \in OtherLines}
      \cup {Replaced(lines, i, line) : i \in 1..Len(lines), line \in OtherLines}

KnotInputs == UNION {Variants(SectionLines(section)) : section \in KnotSections}

InitKnot ==
    /\ list_of_lines \in KnotInputs
    /\ given_lines = list_of_lines
    /\ patch_data = EmptyDict
    /\ knots_data = EmptyDict
    /\ patches = <<>>
    /\ latest_nurb_dimension = PyNone
    /\ knot_pc = "reading"
    /\ knot_raised = NoException
    /\ written_lines = NotCalled
    /\ CodecIdle
    /\ TreeIdle
    /\ MetaIdle
    /\ InputIdle

\* the state after an iteration with outcome st
AfterKnot(st) ==
    /\ list_of_lines' = st.list_of_lines
    /\ patch_data' = st.patch_data
    /\ knots_data' = st.knots_data
    /\ patches' = st.patches
    /\ latest_nurb_dimension' = st.latest_nurb_dimension
    /\ knot_raised' = st.exc
    /\ knot_pc' = IF st.exc = NoException THEN "reading" ELSE "raised"

\* read_knotvectors: one iteration of "while list_of_lines"
ReadLine ==
    /\ knot_pc = "reading"
    /\ list_of_lines # <<>>
    /\ AfterKnot(read_knotvectors_iteration(list_of_lines, patch_data, knots_data,
                                            patches, latest_nurb_dimension))
    /\ UNCHANGED <<given_lines, written_lines, outside_knot>>

\* read_knotvectors: the loop ends, patches is returned
ReadKnotvectorsReturn ==
    /\ knot_pc = "reading"
    /\ list_of_lines = <<>>
    /\ knot_pc' = "returned"
    /\ UNCHANGED <<list_of_lines, patch_data, knots_data, patches, latest_nurb_dimension,
                   knot_raised, given_lines, written_lines, outside_knot>>

\* write_knotvectors(patches) on the patches read
WriteKnotvectors ==
    /\ knot_pc = "returned"
    /\ written_lines' = write_knotvectors(patches)
    /\ knot_pc' = "written"
    /\ UNCHANGED <<list_of_lines, patch_data, knots_data, patches, latest_nurb_dimension,
                   knot_raised, given_lines, outside_knot>>

NextKnot == ReadLine \/ ReadKnotvectorsReturn \/ WriteKnotvectors

SpecKnot == InitKnot /\ [][NextKnot]_vars

\* the knot vectors run from before the call
InitKnotLive ==
    /\ KnotIdle
    /\ CodecIdle
    /\ TreeIdle
    /\ MetaIdle
    /\ InputIdle

\* read_knotvectors(list_of_lines) is called: the locals are set
ReadKnotvectorsCall ==
    /\ knot_pc = "idle"
    /\ list_of_lines' \in KnotInputs
    /\ given_lines' = list_of_lines'
    /\ patch_data' = EmptyDict
    /\ knots_data' = EmptyDict
    /\ patches' = <<>>
    /\ latest_nurb_dimension' = PyNone
    /\ knot_pc' = "reading"
    /\ UNCHANGED <<knot_raised, written_lines, outside_knot>>

NextKnotLive == ReadKnotvectorsCall \/ ReadLine \/ ReadKnotvectorsReturn \/ WriteKnotvectors

\* a step of the run can be taken: the call, an iteration or the return of
\* read_knotvectors, the call of write_knotvectors
KnotCanStep == knot_pc \in {"idle", "reading", "returned"}

\* the run goes on while a step can be taken: the loop of read_knotvectors is
\* a while loop that nothing interrupts, and the caller writes what was read.
\* This is WF_vars(NextKnotLive), with ENABLED <<NextKnotLive>>_vars written as
\* the state predicate KnotCanStep.
SpecKnotLive ==
    /\ InitKnotLive
    /\ [][NextKnotLive]_vars
    /\ ([]<>(~KnotCanStep) \/ []<><<NextKnotLive>>_vars)

(***************************************************************************)
(* Claims about the knot vectors section                                   *)
(***************************************************************************)
\* the iteration at hand pops a line that is not blank
KnotLineRead == knot_pc = "reading" /\ list_of_lines # <<>> /\ Strip(Head(list_of_lines)) # <<>>

\* the iteration at hand pops a line of two tokens whose first token is key
KnotKeyLine(key) ==
    /\ KnotLineRead
    /\ Len(Split(Head(list_of_lines))) = 2
    /\ Split(Head(list_of_lines))[1] = key

\* the dimension declared for the patch at hand: that of its NURBS_DIMENSION
\* line, or else the one declared last
DeclaredDimension ==
    IF K_NURBS_DIMENSION \in DOMAIN patch_data
    THEN patch_data[K_NURBS_DIMENSION]
    ELSE latest_nurb_dimension

\* the patch at hand as it is appended: its entries but the dimension
CollectedPatch == DictRemove(patch_data, K_NURBS_DIMENSION)

\* C14: at an END line of a patch begun, with m knot vectors collected and the
\* dimension n declared: if m differs from n the error "Expected n knot
\* vectors, got m" is raised and nothing is appended to the result; if m
\* equals n the patch is appended and no error is raised.
C14_DimensionChecked ==
    [][(KnotKeyLine(K_END) /\ K_knot_vectors \in DOMAIN patch_data)
         => IF PyInt(Len(patch_data[K_knot_vectors])) # DeclaredDimension
            THEN /\ knot_raised' = Exc("ValueError",
                                        ExpectedMessage(DeclaredDimension,
                                                        Len(patch_data[K_knot_vectors])))
                 /\ patches' = patches
            ELSE /\ knot_raised' = NoException
                 /\ patches' = Append(patches, CollectedPatch)]_vars

\* a patch was appended, and the next one, of dimension 2, ends with one knot
\* vector: "Expected 2 knot vectors, got 1"
C14_Witness ==
    /\ Len(patches) = 1
    /\ knot_raised = Exc("ValueError", ExpectedMessage(PyInt(2), 1))
    /\ knot_raised.arg = <<"E", "x", "p", "e", "c", "t", "e", "d", " ", "2", " ", "k", "n", "o", "t", " ", "v", "e", "c", "t", "o", "r", "s", ",", " ", "g", "o", "t", " ", "1">>

KnotKeywords == {K_BEGIN, K_END, K_ID, K_NURBS_DIMENSION, K_NUMKNOTS, K_DEGREE, K_TYPE}

\* C15: a line popped by the loop of read_knotvectors (a line that is not read
\* as a knot value of a knot vector) which is not blank raises "Could not read
\* line: <line>" if it has two tokens and the first is none of BEGIN, END, ID,
\* NURBS_DIMENSION, NUMKNOTS, DEGREE, TYPE, or if it has neither one nor two
\* tokens.
C15_CouldNotReadLine ==
    [][(/\ KnotLineRead
        /\ \/ /\ Len(Split(Head(list_of_lines))) = 2
              /\ Split(Head(list_of_lines))[1] \notin KnotKeywords
           \/ Len(Split(Head(list_of_lines))) \notin {1, 2})
         => /\ knot_pc' = "raised"
            /\ knot_raised' = Exc("ValueError", CouldNotReadMessage(Head(list_of_lines)))]_vars

\* a line of an unknown keyword was met inside a patch
C15_Witness ==
    /\ knot_raised = Exc("ValueError", <<"C", "o", "u", "l", "d", " ", "n", "o", "t", " ", "r", "e", "a", "d", " ", "l", "i", "n", "e", ":", " ", "u", "n", "k", "n", "o", "w", "n", "_", "k", "e", "y", "w", "o", "r", "d", " ", "1">>)
    /\ K_knot_vectors \in DOMAIN patch_data

\* a token by value: the number if it is a numeral, else the text
TokenValue(tok) == IF PyFloatOf(tok).ok THEN PyFloatOf(tok).val ELSE PyStr(tok)

\* the tokens by value of a line
LineValues(line) == [i \in 1..Len(Split(line)) |-> TokenValue(Split(line)[i])]

\* the tokens by value of the lines that are not blank, line by line
RECURSIVE LinesValues(_)
LinesValues(lines) ==
    IF lines = <<>> THEN <<>>
    ELSE IF Strip(Head(lines)) = <<>> THEN LinesValues(Tail(lines))
    ELSE <<LineValues(Head(lines))>> \o LinesValues(Tail(lines))

\* C16: when read_knotvectors returned patches for a list of lines,
\* write_knotvectors on these patches returns lines with the same tokens, by
\* value, as the lines given that are not blank, line by line and in order.
C16_RoundTrip ==
    knot_pc = "written"
        => /\ written_lines.ok
           /\ LinesValues(written_lines.val) = LinesValues(given_lines)

\* C17: read_knotvectors does not return while a patch is unfinished, that is
\* while entries of a patch or of a knot vector were read since the last END
\* line.
C17_AllOrNothing ==
    knot_pc = "returned" => (patch_data = EmptyDict /\ knots_data = EmptyDict)

(***************************************************************************)
(* fourc_input.py: the FourCInput object, a header store _sections and a   *)
(* legacy store _legacy_sections.  A store is a dict in insertion order.   *)
(* Section values are taken by their type: a dict, a list of lines and     *)
(* dicts, a string.                                                        *)
(***************************************************************************)
S_IO == <<"I", "O">>
S_MATERIALS == <<"M", "A", "T", "E", "R", "I", "A", "L", "S">>
S_TITLE == <<"T", "I", "T", "L", "E">>
S_FUNCT1 == <<"F", "U", "N", "C", "T", "1">>
S_PARTICLES == <<"P", "A", "R", "T", "I", "C", "L", "E", "S">>
S_io == <<"i", "o">>
S_42 == <<"4", "2">>

DESCRIPTION_SECTION == S_TITLE

SECTIONS == {S_IO, S_MATERIALS} \cup {DESCRIPTION_SECTION}

LEGACY_SECTIONS == {S_PARTICLES}

ALL_SECTIONS == SECTIONS \cup LEGACY_SECTIONS

\* str.startswith
StartsWith(s, prefix) == Len(s) >= Len(prefix) /\ SubSeq(s, 1, Len(prefix)) = prefix

LowerCase == <<"a", "b", "c", "d", "e", "f", "g", "h", "i", "j", "k", "l", "m", "n", "o", "p", "q", "r", "s", "t", "u", "v", "w", "x", "y", "z">>

UpperCase == <<"A", "B", "C", "D", "E", "F", "G", "H", "I", "J", "K", "L", "M", "N", "O", "P", "Q", "R", "S", "T", "U", "V", "W", "X", "Y", "Z">>

\* str.upper()
Upper(s) ==
    [i \in 1..Len(s) |->
        IF \E j \in 1..Len(LowerCase) : LowerCase[j] = s[i]
        THEN UpperCase[CHOOSE j \in 1..Len(LowerCase) : LowerCase[j] = s[i]]
        ELSE s[i]]

\* difflib: the pairs <<word, possibility>> of names of the model whose
\* SequenceMatcher ratio reaches the cutoff 0.3
CLOSE_MATCHES ==
    { <<S_IO, S_IO>>,
      <<S_MATERIALS, S_MATERIALS>>, <<S_MATERIALS, S_TITLE>>, <<S_MATERIALS, S_PARTICLES>>,
      <<S_TITLE, S_TITLE>>, <<S_TITLE, S_PARTICLES>>,
      <<S_FUNCT1, S_FUNCT1>>,
      <<S_PARTICLES, S_PARTICLES>>, <<S_PARTICLES, S_TITLE>>, <<S_PARTICLES, S_MATERIALS>> }

\* difflib.get_close_matches(word, possibilities, n=1, cutoff=0.3): the
\* possibilities it chooses from
get_close_matches(word, possibilities) ==
    {x \in possibilities : <<word, x>> \in CLOSE_MATCHES}

\* raise UnknownSectionException(f"... {difflib.get_close_matches(key.upper(),
\* possibilities, n=1, cutoff=0.3)[0]} ..."): the index 0 of an empty list of
\* matches raises IndexError
UnknownSection(key, possibilities) ==
    IF get_close_matches(Upper(key), possibilities) = {}
    THEN Fail("IndexError", <<>>)
    ELSE Fail("UnknownSectionException", key)

PyDict(id) == [ty |-> "dict", id |-> id]

\* the default of pop when none is given
NotSet == [ty |-> "_NotSet"]

\* dict.pop(k) and del d[k] on a dict in insertion order
DictDel(d, k) == SelectSeq(d, LAMBDA item : item[1] # k)

\* a | b from item i of b on
RECURSIVE DictMergeFrom(_, _, _)
DictMergeFrom(a, b, i) ==
    IF i > Len(b) THEN a ELSE DictMergeFrom(DictSet(a, b[i][1], b[i][2]), b, i + 1)

\* a | b
DictMerge(a, b) == DictMergeFrom(a, b, 1)

\* is_section_known
is_section_known(section_name) ==
    section_name \in SECTIONS \/ StartsWith(section_name, <<"F", "U", "N", "C", "T">>)

\* a line of a legacy section the reader of the section raises on
BAD_LINE == <<"x">>

\* a line of a legacy section the reader of the section reads
GOOD_LINE == <<"T", "Y", "P", "E", " ", "a">>

\* the reader of one line of a legacy section, taken by its outcome: a dict,
\* or the exception raised
read_line(line) ==
    IF line.ty # "str" THEN Fail("AttributeError", <<>>)
    ELSE IF line.s = BAD_LINE THEN Fail("KeyError", line.s)
    ELSE Ok(PyDict(line.s))

\* _iterate_and_evaluate(function, iterable) from item i on, done the list of
\* the values so far; r the outcome of function(line) on item i
RECURSIVE _iterate_and_evaluate_from(_, _, _)
_iterate_and_evaluate_next(r, iterable, i, done) ==
    IF r.ok THEN _iterate_and_evaluate_from(iterable, i + 1, Append(done, r.val)) ELSE r

_iterate_and_evaluate_from(iterable, i, done) ==
    IF i > Len(iterable) THEN Ok(PyList(done))
    ELSE _iterate_and_evaluate_next(read_line(iterable[i]), iterable, i, done)

\* interpret_legacy_section; the legacy sections of the model are read line
\* by line
interpret_legacy_section(legacy_section, section_data) ==
    IF legacy_section \notin LEGACY_SECTIONS
    THEN Fail("ValueError", legacy_section)
    ELSE IF legacy_section = S_PARTICLES
    THEN _iterate_and_evaluate_from(section_data.items, 1, <<>>)
    ELSE Fail("NotImplementedError", legacy_section)

\* FourCInput(): the object with both stores empty
FourCInput_new == [_sections |-> <<>>, _legacy_sections |-> <<>>]

\* the outcome of a method: the object after the call and what the call
\* returned or raised
Called(obj, res) == [obj |-> obj, res |-> res]

\* any([isinstance(v, dict) for v in value])
AnyDict(value) == \E i \in 1..Len(value.items) : value.items[i].ty = "dict"

\* self._legacy_sections[key] = ..., r the value or the exception of
\* interpret_legacy_section
FourCInput_setitem_legacy(obj, key, r) ==
    IF r.ok
    THEN Called([obj EXCEPT !._legacy_sections = DictSet(@, key, r.val)], Ok(PyNone))
    ELSE Called(obj, r)

\* FourCInput.__setitem__ as it would be if it stored every section that is not
\* a legacy section in the header store
FourCInput_setitem_unchecked(obj, key, value) ==
    IF key \notin LEGACY_SECTIONS
    THEN Called([obj EXCEPT !._sections = DictSet(@, key, value)], Ok(PyNone))
    ELSE IF value.ty = "list"
    THEN IF ~AnyDict(value)
         THEN FourCInput_setitem_legacy(obj, key, interpret_legacy_section(key, value))
         ELSE FourCInput_setitem_legacy(obj, key, Ok(value))
    ELSE IF value.ty = "dict"
    THEN FourCInput_setitem_legacy(obj, key, Ok(value))
    ELSE Called(obj, Fail("TypeError", key))

\* FourCInput.__setitem__
FourCInput_setitem(obj, key, value) ==
    IF is_section_known(key)
    THEN Called([obj EXCEPT !._sections = DictSet(@, key, value)], Ok(PyNone))
    ELSE IF key \in LEGACY_SECTIONS
    THEN IF value.ty = "list"
         THEN IF ~AnyDict(value)
              THEN FourCInput_setitem_legacy(obj, key, interpret_legacy_section(key, value))
              ELSE FourCInput_setitem_legacy(obj, key, Ok(value))
         ELSE IF value.ty = "dict"
         THEN FourCInput_setitem_legacy(obj, key, Ok(value))
         ELSE Called(obj, Fail("TypeError", key))
    ELSE Called(obj, UnknownSection(key, ALL_SECTIONS))

\* FourCInput.__init__: the loop over sections.items() from item i on
RECURSIVE FourCInput_init_from(_, _, _)
FourCInput_init_set(c, sections_, i) ==
    IF c.res.ok THEN FourCInput_init_from(c.obj, sections_, i + 1) ELSE c

FourCInput_init_from(obj, sections_, i) ==
    IF i > Len(sections_) THEN Called(obj, Ok(PyNone))
    ELSE FourCInput_init_set(FourCInput_setitem(obj, sections_[i][1], sections_[i][2]),
                             sections_, i)

\* FourCInput(sections)
FourCInput_init(sections_) == FourCInput_init_from(FourCInput_new, sections_, 1)

\* FourCInput.sections
FourCInput_sections(obj) == DictMerge(obj._sections, obj._legacy_sections)

\* FourCInput.get_section_names, as the set of the names of the sorted list
get_section_names(obj) == DictKeys(obj._legacy_sections) \cup DictKeys(obj._sections)

\* FourCInput.items
FourCInput_items(obj) == FourCInput_sections(obj)

\* FourCInput.__getitem__
FourCInput_getitem(obj, key) ==
    IF is_section_known(key)
    THEN IF key \in DictKeys(obj._sections)
         THEN Called(obj, Ok(DictGet(obj._sections, key)))
         ELSE Called(obj, Fail("KeyError", key))
    ELSE IF key \in DictKeys(obj._legacy_sections)
    THEN Called(obj, Ok(DictGet(obj._legacy_sections, key)))
    ELSE Called(obj, UnknownSection(key, ALL_SECTIONS))

\* FourCInput.__contains__
FourCInput_contains(obj, item) ==
    item \in DictKeys(obj._legacy_sections) \cup DictKeys(obj._sections)

\* FourCInput.pop as it would be if a default given came before the section
\* stored
FourCInput_pop_default_first(obj, key, default_value) ==
    IF default_value # NotSet
    THEN Called(obj, Ok(default_value))
    ELSE IF key \in DictKeys(obj._sections)
    THEN Called([obj EXCEPT !._sections = DictDel(@, key)], Ok(DictGet(obj._sections, key)))
    ELSE IF key \in DictKeys(obj._legacy_sections)
    THEN Called([obj EXCEPT !._legacy_sections = DictDel(@, key)],
                Ok(DictGet(obj._legacy_sections, key)))
    ELSE Called(obj, UnknownSection(key, ALL_SECTIONS))

\* FourCInput.pop
FourCInput_pop(obj, key, default_value) ==
    IF key \in DictKeys(obj._sections)
    THEN Called([obj EXCEPT !._sections = DictDel(@, key)], Ok(DictGet(obj._sections, key)))
    ELSE IF key \in DictKeys(obj._legacy_sections)
    THEN Called([obj EXCEPT !._legacy_sections = DictDel(@, key)],
                Ok(DictGet(obj._legacy_sections, key)))
    ELSE IF key \in ALL_SECTIONS
    THEN IF default_value # NotSet
         THEN Called(obj, Ok(default_value))
         ELSE Called(obj, UnknownSection(key, get_section_names(obj)))
    ELSE Called(obj, UnknownSection(key, ALL_SECTIONS))

\* isinstance(other, FourCInput)
IsFourCInput(other) == "_sections" \in DOMAIN other

\* FourCInput.join: the loop "for key, value in other.items()" from item i on
RECURSIVE FourCInput_join_from(_, _, _)
FourCInput_join_set(c, items, i) ==
    IF c.res.ok THEN FourCInput_join_from(c.obj, items, i + 1) ELSE c

FourCInput_join_from(obj, items, i) ==
    IF i > Len(items) THEN Called(obj, Ok(PyNone))
    ELSE FourCInput_join_set(FourCInput_setitem(obj, items[i][1], items[i][2]), items, i)

\* FourCInput.join as it would be without the check of the sections defined
\* in both
FourCInput_join_unchecked(obj, other) ==
    IF ~IsFourCInput(other)
    THEN Called(obj, Fail("TypeError", <<>>))
    ELSE FourCInput_join_from(obj, FourCInput_items(other), 1)

\* FourCInput.join
FourCInput_join(obj, other) ==
    IF ~IsFourCInput(other)
    THEN Called(obj, Fail("TypeError", <<>>))
    ELSE IF get_section_names(obj) \cap get_section_names(other) # {}
    THEN Called(obj, Fail("ValueError", <<>>))
    ELSE FourCInput_join_from(obj, FourCInput_items(other), 1)

\* a dict of sections given to add, with its items in insertion order
PyDictOf(items) == [ty |-> "dict", items |-> items]

\* FourCInput.add: a dict is assigned item by item, an input object is joined
FourCInput_add_sections(obj, sections_) ==
    IF IsFourCInput(sections_) THEN FourCInput_join(obj, sections_)
    ELSE IF sections_.ty = "dict"
    THEN FourCInput_join_from(obj, sections_.items, 1)
    ELSE Called(obj, Fail("TypeError", <<>>))

\* FourCInput.copy: copy.deepcopy(self), an equal object of its own
FourCInput_copy(obj) == obj

\* the outcome of __add__: the receiver after the call, the object made and
\* what join raised; c the outcome of join on the object made
AddOf(obj, c) == [self |-> obj, made |-> c.obj, res |-> c.res]

\* FourCInput.__add__ as it would be if it joined other to the receiver itself
FourCInput_add_in_place(obj, other) ==
    AddOf(FourCInput_join(obj, other).obj, FourCInput_join(obj, other))

\* FourCInput.__add__
FourCInput_add(obj, other) == AddOf(obj, FourCInput_join(FourCInput_copy(obj), other))

\* the outcome of split: the two objects made and what the call raised
Splitted(root_input, spiltted_input, res) ==
    [root |-> root_input, split |-> spiltted_input, res |-> res]

\* FourCInput.split: the loop "for section in section_names" from name i on
RECURSIVE FourCInput_split_from(_, _, _, _)
FourCInput_split_set(root_input, c, section_names, i) ==
    IF c.res.ok
    THEN FourCInput_split_from(root_input, c.obj, section_names, i + 1)
    ELSE Splitted(root_input, c.obj, c.res)

FourCInput_split_popped(p, spiltted_input, section_names, i) ==
    IF p.res.ok
    THEN FourCInput_split_set(p.obj,
                              FourCInput_setitem(spiltted_input, section_names[i], p.res.val),
                              section_names, i)
    ELSE Splitted(p.obj, spiltted_input, p.res)

FourCInput_split_from(root_input, spiltted_input, section_names, i) ==
    IF i > Len(section_names)
    THEN Splitted(root_input, spiltted_input, Ok(PyNone))
    ELSE FourCInput_split_popped(FourCInput_pop(root_input, section_names[i], NotSet),
                                 spiltted_input, section_names, i)

\* the outcome of split with the receiver after the call; s the outcome of the
\* loop
SplitOf(obj, s) == [self |-> obj, root |-> s.root, split |-> s.split, res |-> s.res]

\* FourCInput.split
FourCInput_split(obj, section_names) ==
    SplitOf(obj, FourCInput_split_from(FourCInput_copy(obj), FourCInput_new,
                                       section_names, 1))

(***************************************************************************)
(* The run on input objects: two objects are constructed from dicts of     *)
(* sections, then methods are called on the objects at hand until MaxCalls *)
(* calls are made; the objects a call returns are at hand afterwards.      *)
(* SpecInput takes the last call of a run, from every two objects; SpecRun *)
(* takes whole runs from an empty object, with fewer names and values.     *)
(***************************************************************************)
\* the names given to the methods: header sections, a FUNCT section, a legacy
\* section, two unknown names
SectionNames == {S_IO, S_MATERIALS, S_FUNCT1, S_PARTICLES, S_io, S_42}

\* the names among them that are no section names
UnknownNames == {S_io, S_42}

\* the values the objects are constructed with: two dicts and a list of lines
GivenValues == {PyDict(1), PyDict(2), PyList(<<PyStr(GOOD_LINE)>>)}

\* the values assigned to a section after construction: a dict, a list of
\* lines, a list with a line the reader raises on, a string
AssignedValues ==
    { PyDict(3), PyList(<<PyStr(GOOD_LINE)>>), PyList(<<PyStr(GOOD_LINE), PyStr(BAD_LINE)>>),
      PyStr(GOOD_LINE) }

\* the dicts of up to two sections the objects are constructed from
GivenSections ==
    {<<>>}
      \cup {<<(<<k, v>>)>> : k \in SectionNames \ UnknownNames, v \in GivenValues}
      \cup {<< <<k[1], v>>, <<k[2], v>> >> :
               k \in {x \in (SectionNames \ UnknownNames) \X (SectionNames \ UnknownNames) : x[1] # x[2]},
               v \in GivenValues}

\* the lists of names given to split
NameLists == UNION {[1..n -> SectionNames \ UnknownNames] : n \in 0..MaxNames}

InitInput ==
    /\ \E a \in GivenSections, b \in GivenSections :
          inputs = <<FourCInput_init(a).obj, FourCInput_init(b).obj>>
    /\ last_call = NotCalled
    /\ n_calls = MaxCalls - 1
    /\ CodecIdle
    /\ TreeIdle
    /\ MetaIdle
    /\ KnotIdle

\* the record of a call: the method, the receiver, the arguments, what the
\* call returned or raised, the objects it made
Call(op, self, args, res, objects) ==
    [op |-> op, self |-> self, args |-> args, res |-> res, made |-> objects]

\* input[key] = value
SetItem(i, key, value) ==
    /\ n_calls < MaxCalls
    /\ inputs' = [inputs EXCEPT ![i] = FourCInput_setitem(inputs[i], key, value).obj]
    /\ last_call' = Call("__setitem__", i, <<key, value>>,
                         FourCInput_setitem(inputs[i], key, value).res, <<>>)
    /\ n_calls' = n_calls + 1
    /\ UNCHANGED outside_input

\* input.pop(key) and input.pop(key, default_value)
Pop(i, key, default_value) ==
    /\ n_calls < MaxCalls
    /\ inputs' = [inputs EXCEPT ![i] = FourCInput_pop(inputs[i], key, default_value).obj]
    /\ last_call' = Call("pop", i, <<key, default_value>>,
                         FourCInput_pop(inputs[i], key, default_value).res, <<>>)
    /\ n_calls' = n_calls + 1
    /\ UNCHANGED outside_input

\* input[key]
GetItem(i, key) ==
    /\ n_calls < MaxCalls
    /\ inputs' = inputs
    /\ last_call' = Call("__getitem__", i, <<key>>, FourCInput_getitem(inputs[i], key).res, <<>>)
    /\ n_calls' = n_calls + 1
    /\ UNCHANGED outside_input

\* input.join(other), other an input object at hand
JoinInputs(i, j) ==
    /\ n_calls < MaxCalls
    /\ inputs' = [inputs EXCEPT ![i] = FourCInput_join(inputs[i], inputs[j]).obj]
    /\ last_call' = Call("join", i, <<j>>, FourCInput_join(inputs[i], inputs[j]).res, <<>>)
    /\ n_calls' = n_calls + 1
    /\ UNCHANGED outside_input

\* input.join(other), other not an input object (recorded as object 0)
JoinOther(i, other) ==
    /\ n_calls < MaxCalls
    /\ inputs' = [inputs EXCEPT ![i] = FourCInput_join(inputs[i], other).obj]
    /\ last_call' = Call("join", i, <<0, other>>, FourCInput_join(inputs[i], other).res, <<>>)
    /\ n_calls' = n_calls + 1
    /\ UNCHANGED outside_input

\* the objects after a + b with outcome c: the object made is at hand when
\* the call returned
AfterAdd(i, j, c) ==
    /\ inputs' = IF c.res.ok
                 THEN Append([inputs EXCEPT ![i] = c.self], c.made)
                 ELSE [inputs EXCEPT ![i] = c.self]
    /\ last_call' = Call("__add__", i, <<j>>, c.res,
                         IF c.res.ok THEN <<Len(inputs) + 1>> ELSE <<>>)

\* input + other
AddInputs(i, j) ==
    /\ n_calls < MaxCalls
    /\ Len(inputs) < MaxInputs
    /\ AfterAdd(i, j, FourCInput_add(inputs[i], inputs[j]))
    /\ n_calls' = n_calls + 1
    /\ UNCHANGED outside_input

\* the objects after input.split(section_names) with outcome s
AfterSplit(i, section_names, s) ==
    /\ inputs' = IF s.res.ok
                 THEN [inputs EXCEPT ![i] = s.self] \o <<s.root, s.split>>
                 ELSE [inputs EXCEPT ![i] = s.self]
    /\ last_call' = Call("split", i, section_names, s.res,
                         IF s.res.ok THEN <<Len(inputs) + 1, Len(inputs) + 2>> ELSE <<>>)

\* input.split(section_names)
SplitInput(i, section_names) ==
    /\ n_calls < MaxCalls
    /\ Len(inputs) + 2 <= MaxInputs
    /\ AfterSplit(i, section_names, FourCInput_split(inputs[i], section_names))
    /\ n_calls' = n_calls + 1
    /\ UNCHANGED outside_input

\* input.copy()
CopyInput(i) ==
    /\ n_calls < MaxCalls
    /\ Len(inputs) < MaxInputs
    /\ inputs' = Append(inputs, FourCInput_copy(inputs[i]))
    /\ last_call' = Call("copy", i, <<>>, Ok(PyNone), <<Len(inputs) + 1>>)
    /\ n_calls' = n_calls + 1
    /\ UNCHANGED outside_input

NextInput ==
    \/ \E i \in 1..Len(inputs), key \in SectionNames, value \in AssignedValues :
          SetItem(i, key, value)
    \/ \E i \in 1..Len(inputs), key \in SectionNames, default_value \in {NotSet, PyStr(GOOD_LINE)} :
          Pop(i, key, default_value)
    \/ \E i \in 1..Len(inputs), key \in SectionNames : GetItem(i, key)
    \/ \E i \in 1..Len(inputs), j \in 1..Len(inputs) : JoinInputs(i, j)
    \/ \E i \in 1..Len(inputs) : JoinOther(i, PyStr(GOOD_LINE))
    \/ \E i \in 1..Len(inputs), j \in 1..Len(inputs) : AddInputs(i, j)
    \/ \E i \in 1..Len(inputs), section_names \in NameLists : SplitInput(i, section_names)
    \/ \E i \in 1..Len(inputs) : CopyInput(i)

SpecInput == InitInput /\ [][NextInput]_vars

\* the names of the calls of a whole run: a header section, a legacy section,
\* an unknown name
RunNames == {S_IO, S_PARTICLES, S_42}

\* the values of the calls of a whole run
RunValues == {PyDict(3), PyList(<<PyStr(GOOD_LINE)>>)}

\* the dicts of sections given to FourCInput(sections) and to add in a whole
\* run; the assignment of the last one raises at its second item
RunSections ==
    { <<>>,
      << <<S_IO, PyDict(1)>> >>,
      << <<S_PARTICLES, PyList(<<PyStr(GOOD_LINE)>>)>> >>,
      << <<S_IO, PyDict(2)>>, <<S_42, PyDict(2)>> >> }

\* the lists of names given to split in a whole run
RunNameLists == UNION {[1..n -> {S_IO, S_PARTICLES}] : n \in 0..1}

InitRun ==
    /\ inputs = <<FourCInput_new>>
    /\ last_call = NotCalled
    /\ n_calls = 0
    /\ CodecIdle
    /\ TreeIdle
    /\ MetaIdle
    /\ KnotIdle

\* the objects after FourCInput(sections) with outcome c: the object is at
\* hand when the constructor returned
AfterNew(sections_, c) ==
    /\ inputs' = IF c.res.ok THEN Append(inputs, c.obj) ELSE inputs
    /\ last_call' = Call("__init__", 0, <<sections_>>, c.res,
                         IF c.res.ok THEN <<Len(inputs) + 1>> ELSE <<>>)

\* FourCInput(sections)
NewInput(sections_) ==
    /\ n_calls < MaxCalls
    /\ Len(inputs) < MaxInputs
    /\ AfterNew(sections_, FourCInput_init(sections_))
    /\ n_calls' = n_calls + 1
    /\ UNCHANGED outside_input

\* input.add(sections), sections a dict or no dict and no input object
AddSections(i, sections_) ==
    /\ n_calls < MaxCalls
    /\ inputs' = [inputs EXCEPT ![i] = FourCInput_add_sections(inputs[i], sections_).obj]
    /\ last_call' = Call("add", i, <<0, sections_>>,
                         FourCInput_add_sections(inputs[i], sections_).res, <<>>)
    /\ n_calls' = n_calls + 1
    /\ UNCHANGED outside_input

\* input.add(other), other an input object at hand
AddInput(i, j) ==
    /\ n_calls < MaxCalls
    /\ inputs' = [inputs EXCEPT ![i] = FourCInput_add_sections(inputs[i], inputs[j]).obj]
    /\ last_call' = Call("add", i, <<j>>,
                         FourCInput_add_sections(inputs[i], inputs[j]).res, <<>>)
    /\ n_calls' = n_calls + 1
    /\ UNCHANGED outside_input

NextRun ==
    \/ \E sections_ \in RunSections : NewInput(sections_)
    \/ \E i \in 1..Len(inputs), key \in RunNames, value \in RunValues : SetItem(i, key, value)
    \/ \E i \in 1..Len(inputs), key \in RunNames, default_value \in {NotSet, PyStr(GOOD_LINE)} :
          Pop(i, key, default_value)
    \/ \E i \in 1..Len(inputs), key \in RunNames : GetItem(i, key)
    \/ \E i \in 1..Len(inputs), sections_ \in {PyDictOf(d) : d \in RunSections} \cup {PyStr(GOOD_LINE)} :
          AddSections(i, sections_)
    \/ \E i \in 1..Len(inputs), j \in 1..Len(inputs) : AddInput(i, j)
    \/ \E i \in 1..Len(inputs), j \in 1..Len(inputs) : JoinInputs(i, j)
    \/ \E i \in 1..Len(inputs), j \in 1..Len(inputs) : AddInputs(i, j)
    \/ \E i \in 1..Len(inputs), section_names \in RunNameLists : SplitInput(i, section_names)
    \/ \E i \in 1..Len(inputs) : CopyInput(i)

SpecRun == InitRun /\ [][NextRun]_vars

\* the lines that are not blank
NonBlank(lines) == SelectSeq(lines, LAMBDA line : Strip(line) # <<>>)

\* line is a line of two tokens whose first token is key
IsKeyLine(line, key) == Len(Split(line)) = 2 /\ Split(line)[1] = key

\* the lines of the patches ended among lines, patch by patch, each with its
\* END line; seg the lines since the END line before
RECURSIVE PatchSegments(_, _)
PatchSegments(lines, seg) ==
    IF lines = <<>> THEN <<>>
    ELSE IF IsKeyLine(Head(lines), K_END)
    THEN <<Append(seg, Head(lines))>> \o PatchSegments(Tail(lines), <<>>)
    ELSE PatchSegments(Tail(lines), Append(seg, Head(lines)))

\* the lines of a patch in the order NURBS_DIMENSION, BEGIN, ID, lines of knot
\* vectors, END
ProtocolOrder(seg) ==
    /\ Len(seg) >= 4
    /\ IsKeyLine(seg[1], K_NURBS_DIMENSION)
    /\ IsKeyLine(seg[2], K_BEGIN)
    /\ IsKeyLine(seg[3], K_ID)
    /\ \A i \in 4..(Len(seg) - 1) :
          \A key \in {K_NURBS_DIMENSION, K_BEGIN, K_ID, K_END} : ~IsKeyLine(seg[i], key)

\* C25: when read_knotvectors returned, the lines of every patch it read came
\* in the order NURBS_DIMENSION, BEGIN NURBSPATCH, ID, lines of knot vectors,
\* END NURBSPATCH, each patch with a NURBS_DIMENSION line of its own; lines in
\* another order give no patch.
C25_ProtocolOrder ==
    knot_pc = "returned"
        => \A k \in 1..Len(PatchSegments(NonBlank(given_lines), <<>>)) :
              ProtocolOrder(PatchSegments(NonBlank(given_lines), <<>>)[k])

\* the iteration at hand reads the knots of a knot vector of a patch begun,
\* with the number of knots declared
KnotsRead ==
    /\ KnotLineRead
    /\ Len(Split(Head(list_of_lines))) = 1
    /\ K_NUMKNOTS \in DOMAIN knots_data
    /\ K_knot_vectors \in DOMAIN patch_data

\* the knot vector appended by the step
AppendedKnots == patch_data'[K_knot_vectors][Len(patch_data'[K_knot_vectors])][K_knots].items

\* C26: a knot vector collected holds as many knots as its NUMKNOTS line
\* declared, for every number declared, 0 and 1 included: the values of the
\* lines that follow the header of the knot vector, in order, and no other
\* line is taken from the list.
C26_KnotsAsDeclared ==
    [][(KnotsRead /\ knot_raised' = NoException)
         => /\ Len(patch_data'[K_knot_vectors]) = Len(patch_data[K_knot_vectors]) + 1
            /\ Len(AppendedKnots) = knots_data[K_NUMKNOTS].n
            /\ \A i \in 1..knots_data[K_NUMKNOTS].n :
                  AppendedKnots[i] = PyFloatOf(Strip(list_of_lines[i])).val
            /\ list_of_lines'
                  = SubSeq(list_of_lines, knots_data[K_NUMKNOTS].n + 1, Len(list_of_lines))]_vars

\* the lines left are the last lines of those before, and fewer
IsProperSuffix(rest, lines) ==
    /\ Len(rest) < Len(lines)
    /\ rest = SubSeq(lines, Len(lines) - Len(rest) + 1, Len(lines))

\* C30: read_knotvectors comes to an end on every list of lines; every
\* iteration of its loop takes at least one line from the front of the list
\* and puts none back, and when it returns the list is empty.
C30_Terminates ==
    /\ <>(knot_pc \notin {"idle", "reading"})
    /\ [](knot_pc = "returned" => list_of_lines = <<>>)
    /\ [][(knot_pc = "reading" /\ list_of_lines # <<>>)
            => IsProperSuffix(list_of_lines', list_of_lines)]_vars

\* read_knotvectors returned two patches for a list it has emptied
C30_Witness ==
    /\ knot_pc = "returned"
    /\ Len(given_lines) > 10
    /\ list_of_lines = <<>>
    /\ Len(patches) = 2

(***************************************************************************)
(* Claims about the input objects                                          *)
(***************************************************************************)
\* the names of the sections set in an object
SetNames(obj) == DictKeys(obj._sections) \cup DictKeys(obj._legacy_sections)

\* the value of a section set in an object
SectionValue(obj, name) ==
    IF name \in DictKeys(obj._sections)
    THEN DictGet(obj._sections, name)
    ELSE DictGet(obj._legacy_sections, name)

\* obj holds exactly the sections of a and of b, each with its value there
IsUnionOf(obj, a, b) ==
    /\ SetNames(obj) = SetNames(a) \cup SetNames(b)
    /\ \A name \in SetNames(a) : SectionValue(obj, name) = SectionValue(a, name)
    /\ \A name \in SetNames(b) : SectionValue(obj, name) = SectionValue(b, name)

\* obj holds exactly the sections of a whose names are in names, with their
\* values there
IsRestrictionOf(obj, a, names) ==
    /\ SetNames(obj) = SetNames(a) \cap names
    /\ \A name \in SetNames(obj) : SectionValue(obj, name) = SectionValue(a, name)

\* all objects at hand before the step are as they were
InputsKept == \A k \in 1..Len(inputs) : inputs'[k] = inputs[k]

\* C18: a.join(b) on two input objects raises ValueError and leaves all
\* sections of a and of b as they were if a and b have a section name in
\* common; if they have none, the call returns, a holds exactly the sections
\* of a and b before the call with their values, and b is as it was.
C18_Join ==
    [][(last_call'.op = "join" /\ last_call'.args[1] # 0)
         => IF SetNames(inputs[last_call'.self]) \cap SetNames(inputs[last_call'.args[1]]) # {}
            THEN /\ ~last_call'.res.ok
                 /\ last_call'.res.exc.type = "ValueError"
                 /\ inputs' = inputs
            ELSE /\ last_call'.res.ok
                 /\ Len(inputs') = Len(inputs)
                 /\ IsUnionOf(inputs'[last_call'.self], inputs[last_call'.self],
                              inputs[last_call'.args[1]])
                 /\ \A k \in 1..Len(inputs) :
                       k # last_call'.self => inputs'[k] = inputs[k]]_vars

\* a join of two objects of two sections each, a legacy section among them,
\* returned
C18_Witness ==
    /\ last_call # NotCalled
    /\ last_call.op = "join"
    /\ last_call.res.ok
    /\ Cardinality(SetNames(inputs[last_call.self])) = 4
    /\ Cardinality(SetNames(inputs[last_call.args[1]])) = 2
    /\ inputs[last_call.self]._legacy_sections # <<>>

\* C19: a + b on two input objects leaves a, b and every other object as they
\* were, whether it returns or raises; it returns if a and b have no section
\* name in common, and what it returns is an object that was not there before
\* and holds exactly the sections of a and b with their values.
C19_Add ==
    [][last_call'.op = "__add__"
         => /\ InputsKept
            /\ (SetNames(inputs[last_call'.self]) \cap SetNames(inputs[last_call'.args[1]]) = {})
                  => last_call'.res.ok
            /\ IF last_call'.res.ok
               THEN /\ Len(inputs') = Len(inputs) + 1
                    /\ last_call'.made = <<Len(inputs) + 1>>
                    /\ IsUnionOf(inputs'[Len(inputs) + 1], inputs[last_call'.self],
                                 inputs[last_call'.args[1]])
               ELSE Len(inputs') = Len(inputs)]_vars

\* a + b of two objects of two sections each returned an object of four
\* sections; a and b still have two
C19_Witness ==
    /\ last_call # NotCalled
    /\ last_call.op = "__add__"
    /\ last_call.res.ok
    /\ Cardinality(SetNames(inputs[last_call.made[1]])) = 4
    /\ Cardinality(SetNames(inputs[last_call.self])) = 2
    /\ Cardinality(SetNames(inputs[last_call.args[1]])) = 2
    /\ last_call.self # last_call.args[1]

\* C20: input.split(names) with every name of the list a section set in input
\* returns two objects made by the call: split with exactly the sections
\* named, root with exactly the other sections, each section with its value in
\* input; root and split have no section in common and input is as it was.
C20_Split ==
    [][(/\ last_call'.op = "split"
        /\ SeqSet(last_call'.args) \subseteq SetNames(inputs[last_call'.self]))
         => /\ last_call'.res.ok
            /\ InputsKept
            /\ Len(inputs') = Len(inputs) + 2
            /\ IsRestrictionOf(inputs'[Len(inputs) + 2], inputs[last_call'.self],
                               SeqSet(last_call'.args))
            /\ IsRestrictionOf(inputs'[Len(inputs) + 1], inputs[last_call'.self],
                               SetNames(inputs[last_call'.self]) \ SeqSet(last_call'.args))
            /\ SetNames(inputs'[Len(inputs) + 1]) \cap SetNames(inputs'[Len(inputs) + 2]) = {}]_vars

\* split with names that are set and differ from one another returns root and
\* split as described, and the object split was called on is as it was
SplitDistinctNames ==
    [][(/\ last_call'.op = "split"
        /\ SeqSet(last_call'.args) \subseteq SetNames(inputs[last_call'.self])
        /\ Cardinality(SeqSet(last_call'.args)) = Len(last_call'.args))
         => /\ last_call'.res.ok
            /\ InputsKept
            /\ Len(inputs') = Len(inputs) + 2
            /\ IsRestrictionOf(inputs'[Len(inputs) + 2], inputs[last_call'.self],
                               SeqSet(last_call'.args))
            /\ IsRestrictionOf(inputs'[Len(inputs) + 1], inputs[last_call'.self],
                               SetNames(inputs[last_call'.self]) \ SeqSet(last_call'.args))]_vars

\* C21: input.pop(key) and input.pop(key, default) on a section that is set
\* return the value stored, whatever default is given, remove that section
\* and no other, leave every other section with its value and every other
\* object as it was; afterwards key is not contained in input.
C21_PopSet ==
    [][(/\ last_call'.op = "pop"
        /\ last_call'.args[1] \in SetNames(inputs[last_call'.self]))
         => /\ last_call'.res = Ok(SectionValue(inputs[last_call'.self], last_call'.args[1]))
            /\ IsRestrictionOf(inputs'[last_call'.self], inputs[last_call'.self],
                               SetNames(inputs[last_call'.self]) \ {last_call'.args[1]})
            /\ ~FourCInput_contains(inputs'[last_call'.self], last_call'.args[1])
            /\ Len(inputs') = Len(inputs)
            /\ \A k \in 1..Len(inputs) :
                  k # last_call'.self => inputs'[k] = inputs[k]]_vars

\* pop with a default given returned the list stored under the legacy
\* section, and the other section of the object is still set
C21_Witness ==
    /\ last_call # NotCalled
    /\ last_call.op = "pop"
    /\ last_call.args[1] = S_PARTICLES
    /\ last_call.args[2] # NotSet
    /\ last_call.res.ok
    /\ last_call.res.val.ty = "list"
    /\ Cardinality(SetNames(inputs[last_call.self])) = 1

\* C22: input.pop(key[, default]) on a section that is not set leaves the
\* sections stored as they were; it returns the default if key is a known
\* section name and a default is given, and raises UnknownSectionException
\* and no other exception in every other case.
C22_PopNotSet ==
    [][(/\ last_call'.op = "pop"
        /\ last_call'.args[1] \notin SetNames(inputs[last_call'.self]))
         => /\ inputs' = inputs
            /\ IF last_call'.args[1] \in ALL_SECTIONS /\ last_call'.args[2] # NotSet
               THEN last_call'.res = Ok(last_call'.args[2])
               ELSE /\ ~last_call'.res.ok
                    /\ last_call'.res.exc.type = "UnknownSectionException"]_vars

\* C23: input[key] = value with key neither a known section name nor a legacy
\* section raises UnknownSectionException and leaves both stores as they
\* were.
C23_SetUnknown ==
    [][(/\ last_call'.op = "__setitem__"
        /\ ~is_section_known(last_call'.args[1])
        /\ last_call'.args[1] \notin LEGACY_SECTIONS)
         => /\ ~last_call'.res.ok
            /\ last_call'.res.exc.type = "UnknownSectionException"
            /\ inputs' = inputs]_vars

\* C24: input[key] returns the value stored if the section is set, and raises
\* UnknownSectionException if it is not, for a known name as for an unknown
\* one.
C24_GetItem ==
    [][last_call'.op = "__getitem__"
         => IF last_call'.args[1] \in SetNames(inputs[last_call'.self])
            THEN last_call'.res = Ok(SectionValue(inputs[last_call'.self], last_call'.args[1]))
            ELSE /\ ~last_call'.res.ok
                 /\ last_call'.res.exc.type = "UnknownSectionException"]_vars

\* the stores of obj hold no name in common, the header store known section
\* names only, the legacy store legacy section names only, and
\* get_section_names and the in operator report the names of the two stores
StoresInOrder(obj) ==
    /\ DictKeys(obj._sections) \cap DictKeys(obj._legacy_sections) = {}
    /\ \A name \in DictKeys(obj._sections) : is_section_known(name)
    /\ DictKeys(obj._legacy_sections) \subseteq LEGACY_SECTIONS
    /\ get_section_names(obj) = DictKeys(obj._sections) \cup DictKeys(obj._legacy_sections)
    /\ \A name \in SectionNames \cup ALL_SECTIONS :
          FourCInput_contains(obj, name)
             <=> name \in DictKeys(obj._sections) \cup DictKeys(obj._legacy_sections)

\* C29: after every sequence of calls, returned or raised, every input object
\* has two stores with no name in common, known section names in the header
\* store, legacy section names in the legacy store, and reports exactly the
\* names of the two stores.
C29_Stores == \A k \in 1..Len(inputs) : StoresInOrder(inputs[k])

\* an add of a dict raised at its second item on an object with a legacy
\* section set, after its first item was stored
C29_Witness ==
    /\ last_call # NotCalled
    /\ last_call.op = "add"
    /\ ~last_call.res.ok
    /\ inputs[last_call.self]._sections # <<>>
    /\ inputs[last_call.self]._legacy_sections # <<>>

====
